---- MODULE Spec2Model ----
(***************************************************************************)
(* Verification model of the seirchain ledgers and miners.                 *)
(*                                                                         *)
(*   SpecV : the validating ledger, seirchain/data_types/triangular_ledger *)
(*           (TriangularLedger.initialize_genesis_triad / add_triad).      *)
(*   SpecM : the map ledger, seirchain/core/triangular_ledger, driven by   *)
(*           the worker threads of the threaded Miner, seirchain/core/     *)
(*           miner.py (Miner.mine), and by direct add_triad calls.         *)
(*   SpecW : the map ledger extended by the worker threads alone.          *)
(*   SpecP : the transaction pool of the map ledger under local submits    *)
(*           (Miner.add_transaction_to_pool), inbound transactions         *)
(*           (MessageHandler.handle_transaction) and the worker threads.   *)
(*   SpecS : the single-threaded Miner, seirchain/miner.py.                *)
(***************************************************************************)
EXTENDS Integers, Sequences, FiniteSets, TLC

(***************************************************************************)
(* Bounds of the model.                                                    *)
(***************************************************************************)
\* config.DIFFICULTY: number of leading '0' hex digits a hash must have
DIFFICULTY == 1
\* config.MAX_DEPTH: the largest depth a stored Triad may have
MAX_DEPTH == 2
\* number of hex digits of a modelled hash (64 for a sha256 hexdigest)
HashLen == 2
\* number of distinct values of the last hex digit of a modelled hash
NumDigits == 5
\* longest parent_hashes list of a candidate
MaxParents == 2
\* longest transactions list of a candidate
MaxTx == 1
\* Miner.num_threads: number of worker threads of the threaded Miner
NumWorkers == 2
\* config.MAX_NONCE_ATTEMPTS: size of the nonce space the workers share
MAX_NONCE_ATTEMPTS == 4
\* mining cycles a worker begins
MaxCycles == 1
\* largest number of Triads in the map ledger at which a caller other than
\* a worker, or a peer, still hands in a new Triad
MaxDirectTriads == 3
\* longest parent_hashes list of a Triad handed to the map ledger by such a caller
MaxDirectParents == 1
\* largest length of the transaction pool of the map ledger that
\* TriangularLedger.add_transaction, called on its own, leaves
MaxPool == 1
\* number of triad messages the network handler passes on to its peers
MaxBroadcasts == 2
\* largest length of the transaction pool that Miner.add_transaction_to_pool
\* and MessageHandler.handle_transaction leave
MaxPoolLen == 2
\* config.MAX_TRANSACTIONS_PER_TRIAD: transactions the single-threaded Miner
\* takes from its pool for one Triad
MAX_TRANSACTIONS_PER_TRIAD == 2
\* largest length of the single-threaded Miner's pool at which a
\* transaction is still added
MaxMinerPool == 2
\* largest value of mining_stats["hash_attempts"]
MaxHashAttempts == 8
\* number of Triads in the single-threaded Miner's ledger at which it mines no more
MaxMinerTriads == 2

(***************************************************************************)
(* Program constants.                                                      *)
(***************************************************************************)
MAX_CHILD_CAPACITY == 3
MINING_REWARD == 10

(***************************************************************************)
(* Hashes: hex strings, modelled as sequences of digits.  Digit 0 is the   *)
(* character '0'.  Every digit but the last is '0' or '1'; the last digit  *)
(* tells hashes with the same prefix apart.                                *)
(***************************************************************************)
Digits == 0 .. (NumDigits - 1)

Hashes ==
    { h \in [1 .. HashLen -> Digits] : \A i \in 1 .. (HashLen - 1) : h[i] \in {0, 1} }

\* str.startswith('0' * n)
StartsWithZeros(h, n) ==
    /\ n <= Len(h)
    /\ \A i \in 1 .. n : h[i] = 0

\* hashes that meet the difficulty target
ValidHashes == { h \in Hashes : StartsWithZeros(h, DIFFICULTY) }

\* string order on hashes (used by sorted())
RECURSIVE HashLessFrom(_, _, _)
HashLessFrom(a, b, i) ==
    IF i > Len(a) \/ i > Len(b) THEN Len(a) < Len(b)
    ELSE IF a[i] # b[i] THEN a[i] < b[i]
    ELSE HashLessFrom(a, b, i + 1)

HashLess(a, b) == HashLessFrom(a, b, 1)

\* insert x into the sorted sequence s, after the elements equal to it
RECURSIVE InsertSorted(_, _)
InsertSorted(s, x) ==
    IF s = <<>> THEN <<x>>
    ELSE IF HashLess(x, Head(s)) THEN <<x>> \o s
    ELSE <<Head(s)>> \o InsertSorted(Tail(s), x)

\* sorted(parent_hashes)
RECURSIVE SortedHashes(_)
SortedHashes(s) ==
    IF s = <<>> THEN <<>>
    ELSE InsertSorted(SortedHashes(Tail(s)), Head(s))

SeqToSet(s) == { s[i] : i \in 1 .. Len(s) }

SeqsUpTo(S, n) == UNION { [1 .. k -> S] : k \in 0 .. n }

MaxOfSet(S) == CHOOSE x \in S : \A y \in S : y <= x

(***************************************************************************)
(* State.                                                                  *)
(***************************************************************************)
VARIABLES
    triads,             \* validating ledger: self.triads without the internal key
    depth_key,          \* self.triads['__max_current_depth']: <<>> absent, <<d>> present
    max_current_depth,  \* validating ledger: self.max_current_depth
    wallets,            \* Wallets.wallets: address -> balance
    accepted            \* history: the hashes add_triad accepted, in order of acceptance

varsV == <<triads, depth_key, max_current_depth, wallets, accepted>>

VARIABLES
    triad_map,          \* map ledger: self._triad_map, hash_value -> Triad
    genesis_triad,      \* map ledger: self.genesis_triad: <<>> None, <<h>> the Triad stored under h
    transaction_pool,   \* map ledger: self.transaction_pool
    node_running,       \* node.running
    shutdown_event,     \* Miner.shutdown_event is set
    threads,            \* Miner.threads: the worker threads start() created, not yet dropped by stop()
    thread_states,      \* Miner.thread_states: thread -> state, "" when the key is absent
    pc,                 \* position of each worker thread in Miner.mine
    local,              \* local variables of each worker thread in Miner.mine
    stop_pc,            \* position of the caller of Miner.stop
    reward_balance,     \* wallet_manager: balance of the wallet of miner_address
    broadcasts,         \* the hash_values handed to node.broadcast, in order
    successful_mines    \* Miner.successful_mines

varsLedgerM == <<triad_map, genesis_triad, transaction_pool>>

varsMinerM == <<node_running, shutdown_event, threads, thread_states, pc, local, stop_pc,
                reward_balance, broadcasts, successful_mines>>

varsM == <<varsLedgerM, varsMinerM>>

VARIABLES
    submitting,         \* threaded Miner: <<tx>> while a call add_transaction_to_pool(tx) is
                        \* between its checks and its append, holding
                        \* Miner.transaction_pool_lock; <<>> when the lock is free
    tx_broadcasts       \* the tx_hashes of the transactions handed to node.broadcast, in order

varsP == <<submitting, tx_broadcasts>>

VARIABLES
    miner_pool,         \* single-threaded Miner: self.transaction_pool
    mining_stats,       \* single-threaded Miner: self.mining_stats
    miner_wallets,      \* single-threaded Miner: wallets_manager, address -> balance
    ledger_genesis,     \* its ledger: self.genesis_triad: <<>> None, <<h>> the Triad stored under h
    ledger_map          \* its ledger: self._triad_map, hash -> Triad

varsS == <<miner_pool, mining_stats, miner_wallets, ledger_genesis, ledger_map>>

VARIABLES
    config,             \* seirchain.config.config: attribute -> value
    miner_instance,     \* the call Miner(..., num_threads): not made, raised, or the Miner built
    sim_pc              \* run_simulation: where the call is

varsC == <<config, miner_instance, sim_pc>>

VARIABLES
    manager_wallets,    \* WalletManager.wallets: address -> balance of the Wallet
    hashes_computed,    \* Miner.hashes_computed
    hash_calls,         \* calls of calculate_fractal_hash the workers have made
    count_read          \* per worker: the value of self.hashes_computed it has read
                        \* for "+= 1" and not yet written back

varsX == <<manager_wallets, hashes_computed, hash_calls, count_read>>

vars == <<varsV, varsM, varsP, varsS, varsC, varsX>>

(***************************************************************************)
(* Triad of seirchain/data_types/triad.py.                                 *)
(***************************************************************************)
MinerAddrs == {"m1"}

Txs == {"t1"}

\* Triad.__init__ as the miners call it: no child_hashes, parents sorted
NewTriad(h, depth, parents, txs, miner) ==
    [ hash |-> h,
      depth |-> depth,
      parent_hashes |-> SortedHashes(parents),
      child_hashes |-> <<>>,
      transactions |-> txs,
      miner_address |-> miner ]

\* mutant of is_full: > instead of >=
is_full_OffByOne(t) == Len(t.child_hashes) > MAX_CHILD_CAPACITY

\* Triad.is_full
is_full(t) == Len(t.child_hashes) >= MAX_CHILD_CAPACITY

(***************************************************************************)
(* Wallets of seirchain/data_types/wallets.py.                             *)
(***************************************************************************)
\* Wallets.add_funds: credits a known wallet, leaves the others alone
add_funds(w, addr, amount) ==
    IF addr \in DOMAIN w THEN [w EXCEPT ![addr] = @ + amount] ELSE w

(***************************************************************************)
(* TriangularLedger.add_triad of the validating ledger.                    *)
(***************************************************************************)
\* the ledger holds no Triad: not self.triads, or only the internal key
LedgerEmpty(store, key) ==
    \/ (DOMAIN store = {} /\ key = <<>>)
    \/ (Cardinality(DOMAIN store) + Len(key) = 1 /\ key # <<>>)

\* mutant of AlreadyStored: the duplicate check is missing
AlreadyStored_Never(store, h) == FALSE

\* triad_obj.hash in self.triads
AlreadyStored(store, h) == h \in DOMAIN store

\* mutant of MeetsDifficulty: the target is not checked
MeetsDifficulty_Always(h) == TRUE

\* triad_obj.hash.startswith('0' * DIFFICULTY)
MeetsDifficulty(h) == StartsWithZeros(h, DIFFICULTY)

\* self.triads.get(parent_hash) is truthy
ParentExists(store, p) == p \in DOMAIN store

\* mutant of DepthMatches: >= instead of ==
DepthMatches_AtLeast(cand, parent) == cand.depth >= parent.depth + 1

\* triad_obj.depth == parent_triad_obj.depth + 1
DepthMatches(cand, parent) == cand.depth = parent.depth + 1

\* mutant of ExceedsMaxDepth: the limit is off by one
ExceedsMaxDepth_OffByOne(cand) == cand.depth > MAX_DEPTH + 1

\* triad_obj.depth > MAX_DEPTH
ExceedsMaxDepth(cand) == cand.depth > MAX_DEPTH

\* mutant of CheckParents: a parent that is not stored is skipped
RECURSIVE CheckParents_SkipMissing(_, _, _)
CheckParents_SkipMissing(store, cand, ps) ==
    IF ps = <<>> THEN "ok"
    ELSE IF ~(Head(ps) \in DOMAIN store) THEN CheckParents_SkipMissing(store, cand, Tail(ps))
    ELSE IF Len(store[Head(ps)].child_hashes) >= MAX_CHILD_CAPACITY THEN "parent_full"
    ELSE IF cand.depth # store[Head(ps)].depth + 1 THEN "depth_mismatch"
    ELSE CheckParents_SkipMissing(store, cand, Tail(ps))

\* the loop over parent_hashes: the first check that fails, or "ok"
RECURSIVE CheckParents(_, _, _)
CheckParents(store, cand, ps) ==
    IF ps = <<>> THEN "ok"
    ELSE IF ~ParentExists(store, Head(ps)) THEN "parent_missing"
    ELSE IF is_full(store[Head(ps)]) THEN "parent_full"
    ELSE IF ~DepthMatches(cand, store[Head(ps)]) THEN "depth_mismatch"
    ELSE CheckParents(store, cand, Tail(ps))

\* process_transaction reads transaction.recipient_address, an attribute
\* that TransactionNode (receiver_address) does not have: the first
\* transaction of a candidate raises AttributeError
ProcessTransactions(txs) == IF txs = <<>> THEN "ok" ELSE "tx_error"

\* the checks of add_triad in the order of the code
Validate(store, cand, is_genesis) ==
    IF AlreadyStored(store, cand.hash) THEN "duplicate"
    ELSE IF ~MeetsDifficulty(cand.hash) THEN "difficulty"
    ELSE IF ~is_genesis /\ cand.parent_hashes = <<>> THEN "no_parents"
    ELSE LET parents == IF is_genesis THEN "ok"
                        ELSE CheckParents(store, cand, cand.parent_hashes)
         IN IF parents # "ok" THEN parents
            ELSE IF is_genesis /\ (cand.parent_hashes # <<>> \/ cand.depth # 0)
                 THEN "bad_genesis"
            ELSE IF ExceedsMaxDepth(cand) THEN "depth_exceeded"
            ELSE ProcessTransactions(cand.transactions)

\* what the caller of add_triad sees
ResultOf(verdict) ==
    IF verdict = "ok" THEN "True"
    ELSE IF verdict = "tx_error" THEN "raise"
    ELSE "False"

\* the round, were the parent's list replaced by a list of the new hash
LinkParent_NewList(store, p, h) ==
    IF p \in DOMAIN store
       /\ h \notin SeqToSet(store[p].child_hashes)
       /\ Len(store[p].child_hashes) < MAX_CHILD_CAPACITY
    THEN [store EXCEPT ![p].child_hashes = <<h>>]
    ELSE store

\* one round of the loop that updates the parents' child_hashes
LinkParent(store, p, h) ==
    IF p \in DOMAIN store
       /\ h \notin SeqToSet(store[p].child_hashes)
       /\ Len(store[p].child_hashes) < MAX_CHILD_CAPACITY
    THEN [store EXCEPT ![p].child_hashes = Append(@, h)]
    ELSE store

\* mutant of LinkParents: only the first parent is updated
LinkParents_FirstOnly(store, ps, h) ==
    IF ps = <<>> THEN store ELSE LinkParent(store, Head(ps), h)

RECURSIVE LinkParents(_, _, _)
LinkParents(store, ps, h) ==
    IF ps = <<>> THEN store
    ELSE LinkParents(LinkParent(store, Head(ps), h), Tail(ps), h)

\* self.triads[hash] = to_dict(), then the parents' child_hashes
StoreTriad(store, cand) ==
    LinkParents([x \in DOMAIN store \cup {cand.hash} |->
                    IF x = cand.hash THEN cand ELSE store[x]],
                cand.parent_hashes, cand.hash)

\* the ledger and the wallets as one value, for add_triad as a function
Ledger(store, key, maxd, w) ==
    [triads |-> store, depth_key |-> key, max_current_depth |-> maxd, wallets |-> w]

\* add_triad, were the miner rewarded ahead of the checks
add_triad_RewardFirst(L, cand, is_genesis) ==
    LET paid == IF cand.miner_address # ""
                THEN add_funds(L.wallets, cand.miner_address, MINING_REWARD)
                ELSE L.wallets
    IN  IF Validate(L.triads, cand, is_genesis) = "ok"
        THEN LET maxd == IF cand.depth > L.max_current_depth THEN cand.depth
                         ELSE L.max_current_depth
             IN Ledger(StoreTriad(L.triads, cand), <<maxd>>, maxd, paid)
        ELSE [L EXCEPT !.wallets = paid]

\* add_triad(cand, is_genesis) on ledger L: the ledger it leaves
add_triad(L, cand, is_genesis) ==
    IF Validate(L.triads, cand, is_genesis) = "ok"
    THEN LET maxd == IF cand.depth > L.max_current_depth THEN cand.depth
                     ELSE L.max_current_depth
         IN Ledger(StoreTriad(L.triads, cand), <<maxd>>, maxd,
                   IF cand.miner_address # ""
                   THEN add_funds(L.wallets, cand.miner_address, MINING_REWARD)
                   ELSE L.wallets)
    ELSE L

\* add_triad(cand, is_genesis) on ledger L: what the caller sees
add_triad_result(L, cand, is_genesis) == ResultOf(Validate(L.triads, cand, is_genesis))

\* the validating ledger of the current state
Cur == Ledger(triads, depth_key, max_current_depth, wallets)

\* Triad.from_dict of a stored dict: the Triad with its parents sorted
from_dict(data) == [data EXCEPT !.parent_hashes = SortedHashes(@)]

\* get_max_current_depth(): the value under the internal key, -1 without it
get_max_current_depth(L) == IF L.depth_key = <<>> THEN -1 ELSE L.depth_key[1]

\* the key '__max_current_depth' of self.triads, '_' being the digit -1
InternalKey == <<-1, -1>>

\* key.startswith('__')
StartsWithUnderscores(key) == Len(key) >= 2 /\ key[1] = -1 /\ key[2] = -1

\* self.triads.keys()
KeysOf(L) == DOMAIN L.triads \cup (IF L.depth_key = <<>> THEN {} ELSE {InternalKey})

\* get_total_triads, were every key counted
get_total_triads_AllKeys(L) == Cardinality(KeysOf(L))

\* get_total_triads() of the validating ledger: the keys that do not start
\* with '__'
ledger_get_total_triads(L) ==
    Cardinality({ key \in KeysOf(L) : ~StartsWithUnderscores(key) })

\* save_ledger: what is written, the entries whose key does not start with '__'
save_ledger(L) ==
    [ key \in { k \in DOMAIN L.triads : ~StartsWithUnderscores(k) } |-> L.triads[key] ]

\* load_ledger: the loop "if triad_dict['depth'] > self.max_current_depth"
\* over the entries not looked at yet, from the value maxd
RECURSIVE LoadedMaxDepth(_, _, _)
LoadedMaxDepth(loaded_data, todo, maxd) ==
    IF todo = {} THEN maxd
    ELSE LET h == CHOOSE x \in todo : TRUE
         IN  LoadedMaxDepth(loaded_data, todo \ {h},
                            IF loaded_data[h].depth > maxd THEN loaded_data[h].depth
                            ELSE maxd)

\* load_ledger on ledger L of a file that holds loaded_data, every entry a
\* dictionary with a depth: the ledger it leaves when it returns True
load_ledger(L, loaded_data) ==
    LET maxd == LoadedMaxDepth(loaded_data, DOMAIN loaded_data, -1)
    IN  Ledger(loaded_data, <<maxd>>, maxd, L.wallets)

\* {t.hash: t for t in candidates}.values(): one entry per hash, at the
\* place of the first, with the value of the last
RECURSIVE UniqueByHash(_)
UniqueByHash(candidates) ==
    IF candidates = <<>> THEN <<>>
    ELSE LET first == Head(candidates)
             same == SelectSeq(candidates, LAMBDA t : t.hash = first.hash)
             rest == SelectSeq(candidates, LAMBDA t : t.hash # first.hash)
         IN  <<same[Len(same)]>> \o UniqueByHash(rest)

\* the Triads of the ledger in the order of the keys of self.triads
ActiveTriads(L, order) ==
    LET keys == SelectSeq(order, LAMBDA h : h \in DOMAIN L.triads)
    IN  [i \in 1 .. Len(keys) |-> from_dict(L.triads[keys[i]])]

\* get_candidate_parents without the test of the depth
get_candidate_parents_AnyDepth(L, order) ==
    IF LedgerEmpty(L.triads, L.depth_key) THEN <<>>
    ELSE UniqueByHash(SelectSeq(ActiveTriads(L, order), LAMBDA triad : ~is_full(triad)))

\* get_candidate_parents, were only the level above the deepest looked at
get_candidate_parents_BelowMax(L, order) ==
    IF LedgerEmpty(L.triads, L.depth_key) THEN <<>>
    ELSE LET current_max_depth == get_max_current_depth(L)
         IN  UniqueByHash(SelectSeq(ActiveTriads(L, order),
                 LAMBDA triad : triad.depth = current_max_depth - 1 /\ ~is_full(triad)))

\* get_candidate_parents() on ledger L whose keys were inserted in this order
get_candidate_parents(L, order) ==
    IF LedgerEmpty(L.triads, L.depth_key) THEN <<>>
    ELSE LET current_max_depth == get_max_current_depth(L)
         IN  UniqueByHash(SelectSeq(ActiveTriads(L, order),
                 LAMBDA triad : triad.depth >= current_max_depth - 1 /\ ~is_full(triad)))

SetLedger(L) ==
    /\ triads' = L.triads
    /\ depth_key' = L.depth_key
    /\ max_current_depth' = L.max_current_depth
    /\ wallets' = L.wallets

\* the least hash of a non-empty set of hashes
LeastHash(S) == CHOOSE h \in S : \A g \in S : h = g \/ HashLess(h, g)

\* A sha256 value is opaque to the ledger, which compares hashes for
\* equality only: one hash stands for each kind of candidate hash.
\* The hash of a newly mined Triad: the least valid hash not stored yet.
FreshHashes(store) ==
    IF ValidHashes \subseteq DOMAIN store THEN {}
    ELSE {LeastHash(ValidHashes \ DOMAIN store)}

\* a hash that does not meet the difficulty target
UnmetHashes ==
    IF Hashes = ValidHashes THEN {} ELSE {LeastHash(Hashes \ ValidHashes)}

\* hashes of new candidates: newly mined, or not meeting the target
CandidateHashes(store) == FreshHashes(store) \cup UnmetHashes

\* hashes a candidate names as parents: stored ones, or one that is not stored
ParentChoices(store) == DOMAIN store \cup FreshHashes(store)

\* A hash is a content hash: a candidate whose hash is stored already is the
\* stored Triad handed in again, as the caller built it (no child_hashes).
Resubmitted(store) ==
    { [store[h] EXCEPT !.child_hashes = <<>>] : h \in DOMAIN store }

\* the calls add_triad(triad, is_genesis) a caller can make on ledger store
Calls(store) ==
    { [triad |-> c, is_genesis |-> g] : c \in Resubmitted(store), g \in BOOLEAN }
    \cup
    { [triad |-> NewTriad(h, d, ps, txs, m), is_genesis |-> g] :
          h \in CandidateHashes(store), d \in 0 .. (MAX_DEPTH + 1),
          ps \in SeqsUpTo(ParentChoices(store), MaxParents),
          txs \in SeqsUpTo(Txs, MaxTx), m \in MinerAddrs, g \in BOOLEAN }

\* nonces a caller has set on a Triad
Nonces == 0 .. 1

\* Triad.calculate_hash(): the sha256 hexdigest of the string made of
\* triad_id, depth, parent_hashes, timestamp, transactions, nonce, difficulty
\* and miner_address, as a fixed function of the fields that differ between
\* the Triads built here; child_hashes is not part of the string
calculate_hash(t) ==
    [ i \in 1 .. HashLen |->
        IF i < HashLen
        THEN (t.depth + t.nonce + Len(t.parent_hashes) + Len(t.transactions)) % 2
        ELSE (t.depth + 2 * t.nonce + 3 * Len(t.parent_hashes)
                 + Len(t.transactions)) % NumDigits ]

\* Triad.__init__ with a nonce: current_hash is <<>> for None, and then the
\* hash is calculate_hash(); else the hash is the one handed in, as
\* Triad.from_dict does with data["hash"]
TriadInit(depth, parents, txs, miner, nonce, current_hash) ==
    LET fields == [ depth |-> depth,
                    parent_hashes |-> SortedHashes(parents),
                    child_hashes |-> <<>>,
                    transactions |-> txs,
                    miner_address |-> miner,
                    nonce |-> nonce ]
    IN  [ hash |-> IF current_hash = <<>> THEN calculate_hash(fields)
                   ELSE current_hash[1] ] @@ fields

\* the calls add_triad(triad, is_genesis) with a Triad object whose hash was
\* calculated, or with a Triad or a dictionary that brings its hash along
CallsWithHash(store) ==
    { [triad |-> TriadInit(d, ps, txs, m, n, ch), is_genesis |-> g] :
          d \in 0 .. (MAX_DEPTH + 1),
          ps \in SeqsUpTo(ParentChoices(store), MaxParents),
          txs \in SeqsUpTo(Txs, MaxTx), m \in MinerAddrs, n \in Nonces,
          ch \in {<<>>} \cup { <<h>> : h \in CandidateHashes(store) },
          g \in BOOLEAN }

\* add_triad(triad, is_genesis); the ledger is as it was after a call that
\* returns False or raises
AddTriad(cand, is_genesis) ==
    /\ SetLedger(add_triad(Cur, cand, is_genesis))
    /\ accepted' = IF add_triad_result(Cur, cand, is_genesis) = "True"
                   THEN Append(accepted, cand.hash) ELSE accepted

\* the genesis Triad of initialize_genesis_triad, mined to hash h
GenesisTriad(miner, h) == NewTriad(h, 0, <<>>, <<>>, miner)

\* initialize_genesis_triad(miner_address) on ledger L: the ledger it leaves.
\* mined is <<>> when no nonce below MAX_NONCE_ATTEMPTS gives a hash with
\* DIFFICULTY leading zeros, else <<h>> with h the first such hash.
initialize_genesis_triad(L, miner, mined) ==
    IF LedgerEmpty(L.triads, L.depth_key) /\ mined # <<>>
    THEN add_triad(L, GenesisTriad(miner, mined[1]), TRUE)
    ELSE L

\* initialize_genesis_triad(miner_address) on ledger L: what the caller sees
initialize_genesis_triad_result(L, miner, mined) ==
    IF LedgerEmpty(L.triads, L.depth_key) /\ mined # <<>>
       /\ add_triad_result(L, GenesisTriad(miner, mined[1]), TRUE) = "True"
    THEN "True" ELSE "False"

InitializeGenesisTriad(miner, mined) ==
    /\ SetLedger(initialize_genesis_triad(Cur, miner, mined))
    /\ accepted' = IF initialize_genesis_triad_result(Cur, miner, mined) = "True"
                   THEN Append(accepted, mined[1]) ELSE accepted

\* the outcomes of the nonce loop of initialize_genesis_triad
MinedOutcomes(store) == {<<>>} \cup { <<h>> : h \in FreshHashes(store) }

(***************************************************************************)
(* Triad of seirchain/core/data_types/triad.py: the mutable Triad whose    *)
(* hash_value and triad_id the threaded Miner assigns and whose add_child  *)
(* the map ledger calls.  The empty string is the empty sequence of digits.*)
(***************************************************************************)
\* Triad.__init__
Triad(triad_id, depth, hash_value, parent_hashes) ==
    [ triad_id |-> triad_id,
      depth |-> depth,
      hash_value |-> hash_value,
      parent_hashes |-> parent_hashes,
      child_hashes |-> <<>> ]

\* add_child without its test for a hash that is already listed
add_child_NoTest(t, child_triad) ==
    [t EXCEPT !.child_hashes = Append(@, child_triad.hash_value)]

\* Triad.add_child(child_triad) on Triad t: t afterwards
add_child(t, child_triad) ==
    IF child_triad.hash_value \in SeqToSet(t.child_hashes) THEN t
    ELSE [t EXCEPT !.child_hashes = Append(@, child_triad.hash_value)]

(***************************************************************************)
(* The map ledger, seirchain/core/triangular_ledger/triangular_ledger.py.  *)
(* A call of one of its methods is one step.                               *)
(***************************************************************************)
LedgerM(genesis, map) == [genesis_triad |-> genesis, triad_map |-> map]

CurM == LedgerM(genesis_triad, triad_map)

\* add_triad: "if new_triad.hash_value not in self._triad_map: ..."
InsertIfAbsent(map, new_triad) ==
    IF new_triad.hash_value \in DOMAIN map THEN map
    ELSE (new_triad.hash_value :> new_triad) @@ map

\* add_triad: the loop over new_triad.parent_hashes, from position i on
RECURSIVE LinkToParents(_, _, _)
LinkToParents(map, new_triad, i) ==
    IF i > Len(new_triad.parent_hashes) THEN map
    ELSE LET p == new_triad.parent_hashes[i] IN
         LinkToParents(IF p \in DOMAIN map
                       THEN [map EXCEPT ![p] = add_child(@, new_triad)]
                       ELSE map,
                       new_triad, i + 1)

\* add_triad: found_parent after the loop
found_parent(map, new_triad) ==
    \E i \in 1 .. Len(new_triad.parent_hashes) : new_triad.parent_hashes[i] \in DOMAIN map

\* TriangularLedger.add_triad(new_triad) on ledger L: the ledger it leaves
map_add_triad(L, new_triad) ==
    IF L.genesis_triad = <<>>
    THEN LedgerM(<<new_triad.hash_value>>,
                 (new_triad.hash_value :> new_triad) @@ L.triad_map)
    ELSE LedgerM(L.genesis_triad,
                 LinkToParents(InsertIfAbsent(L.triad_map, new_triad), new_triad, 1))

\* TriangularLedger.add_triad(new_triad) on ledger L: the value it returns
map_add_triad_result(L, new_triad) ==
    IF L.genesis_triad = <<>> THEN TRUE
    ELSE found_parent(InsertIfAbsent(L.triad_map, new_triad), new_triad)

\* get_current_tip_triad_hashes: the breadth-first loop, with queue q
RECURSIVE TipsFrom(_, _, _, _)
TipsFrom(map, q, visited, tips) ==
    IF q = <<>> THEN tips
    ELSE LET cur == Head(q)
             seen == visited \cup {cur}
         IN  IF cur \in visited THEN TipsFrom(map, Tail(q), visited, tips)
             ELSE IF map[cur].child_hashes = <<>>
                  THEN TipsFrom(map, Tail(q), seen, Append(tips, cur))
                  ELSE TipsFrom(map,
                                Tail(q) \o SelectSeq(map[cur].child_hashes,
                                              LAMBDA c : c \in DOMAIN map /\ c \notin seen),
                                seen, tips)

\* TriangularLedger.get_current_tip_triad_hashes()
get_current_tip_triad_hashes(L) ==
    IF L.genesis_triad = <<>> THEN <<>>
    ELSE LET tips == TipsFrom(L.triad_map, L.genesis_triad, {}, <<>>)
         IN  IF tips # <<>> THEN tips ELSE L.genesis_triad

\* TriangularLedger.get_total_triads()
get_total_triads(L) == Cardinality(DOMAIN L.triad_map)

\* get_all_transactions: the breadth-first loop, with queue q of hashes of
\* stored Triads.  Reading current_triad.transactions raises AttributeError
\* on a Triad that has no such attribute, which ends the generator.
RECURSIVE AllTransactionsFrom(_, _, _, _)
AllTransactionsFrom(map, q, visited, yielded) ==
    IF q = <<>> THEN [raised |-> FALSE, yielded |-> yielded]
    ELSE LET cur == Head(q)
             seen == visited \cup {cur}
         IN  IF cur \in visited THEN AllTransactionsFrom(map, Tail(q), visited, yielded)
             ELSE IF "transactions" \notin DOMAIN map[cur]
                  THEN [raised |-> TRUE, yielded |-> yielded]
                  ELSE AllTransactionsFrom(map,
                           Tail(q) \o SelectSeq(map[cur].child_hashes,
                                         LAMBDA c : c \in DOMAIN map /\ c \notin seen),
                           seen, yielded \o map[cur].transactions)

\* TriangularLedger.get_all_transactions(), run to its end: what it yielded,
\* and whether it ended by raising
get_all_transactions(L) ==
    IF L.genesis_triad = <<>> THEN [raised |-> FALSE, yielded |-> <<>>]
    ELSE AllTransactionsFrom(L.triad_map, L.genesis_triad, {}, <<>>)

\* Triad.to_dict() of a stored Triad
to_dict(t) ==
    [ triad_id |-> t.triad_id,
      depth |-> t.depth,
      hash_value |-> t.hash_value,
      parent_hashes |-> t.parent_hashes,
      child_hashes |-> t.child_hashes ]

\* TriangularLedger.save_to_json(filename): the files written, none when
\* there is no genesis Triad; the document holds the genesis hash and the
\* to_dict() of every Triad of _triad_map.  json.dump and json.load keep the
\* strings, integers and lists of strings of these dicts as they are.
save_to_json(L) ==
    IF L.genesis_triad = <<>> THEN <<>>
    ELSE << [ genesis_hash |-> L.genesis_triad[1],
              all_triads |-> { to_dict(L.triad_map[h]) : h \in DOMAIN L.triad_map } ] >>

\* the parameters of __init__ of the Triad the ledger module imports
\* (seirchain.data_types.triad), and those without a default
LedgerTriadParams ==
    { "triad_id", "depth", "parent_hashes", "transactions", "nonce", "difficulty",
      "miner_address", "timestamp", "current_hash", "child_hashes" }

LedgerTriadRequired ==
    { "triad_id", "depth", "parent_hashes", "transactions", "nonce", "difficulty",
      "miner_address" }

\* the keyword arguments load_from_json passes to Triad(...)
LoadKeywords == { "triad_id", "depth", "hash_value", "parent_hashes" }

\* a call Triad(**keywords) raises TypeError for a keyword that is no
\* parameter and for a missing required parameter
ConstructRaises(keywords) ==
    \/ ~(keywords \subseteq LedgerTriadParams)
    \/ ~(LedgerTriadRequired \subseteq keywords)

\* load_from_json: the Triad it makes of one entry of all_triads, with the
\* child_hashes attribute set from the entry
LoadedTriad(triad_data) ==
    [ triad_id |-> triad_data.triad_id,
      depth |-> triad_data.depth,
      hash_value |-> triad_data.hash_value,
      parent_hashes |-> triad_data.parent_hashes,
      child_hashes |-> triad_data.child_hashes,
      transactions |-> <<>> ]

\* TriangularLedger.load_from_json(filename) on the files written: whether
\* it raises (no file, no genesis_hash or no Triads, a failing Triad(...),
\* genesis hash not among the Triads), and the ledger it returns otherwise
load_from_json(files) ==
    LET failed == [raised |-> TRUE, ledger |-> LedgerM(<<>>, << >>)] IN
    IF files = <<>> THEN failed
    ELSE LET data == files[1]
             keys == { d.hash_value : d \in data.all_triads }
             temp_triad_map ==
                 [ h \in keys |->
                     LoadedTriad(CHOOSE d \in data.all_triads : d.hash_value = h) ]
         IN  IF data.all_triads = {} THEN failed
             ELSE IF ConstructRaises(LoadKeywords) THEN failed
             ELSE IF data.genesis_hash \notin keys THEN failed
             ELSE [raised |-> FALSE,
                   ledger |-> LedgerM(<<data.genesis_hash>>, temp_triad_map)]

\* hashes a Triad handed in by a caller other than a worker names as
\* parents: stored ones, or one that is never stored
ParentChoicesM(map) == DOMAIN map \cup UnmetHashes

\* depth of such a Triad, set as Miner.mine sets it: one more than the depth
\* of the first parent, which is a Triad at depth 0 when it is not stored here
DirectDepth(map, ps) ==
    IF ps = <<>> THEN 0
    ELSE IF ps[1] \in DOMAIN map THEN map[ps[1]].depth + 1 ELSE 1

\* Triads a caller other than a worker hands to add_triad: a stored Triad
\* again, or a new one whose triad_id is its hash_value, as Miner.mine sets it
CallsM(map) ==
    { [map[h] EXCEPT !.child_hashes = <<>>] : h \in DOMAIN map }
    \cup
    { Triad(h, DirectDepth(map, ps), h, ps) :
          h \in FreshHashes(map),
          ps \in SeqsUpTo(ParentChoicesM(map), MaxDirectParents) }

\* the same callers, naming up to MaxParents parents
CallsL(map) ==
    { [map[h] EXCEPT !.child_hashes = <<>>] : h \in DOMAIN map }
    \cup
    { Triad(h, DirectDepth(map, ps), h, ps) :
          h \in FreshHashes(map),
          ps \in SeqsUpTo(ParentChoicesM(map), MaxParents) }

\* a direct call ledger.add_triad(new_triad)
AddTriadM(new_triad) ==
    /\ (new_triad.hash_value \in DOMAIN triad_map)
          \/ (Cardinality(DOMAIN triad_map) < MaxDirectTriads)
    /\ genesis_triad' = map_add_triad(CurM, new_triad).genesis_triad
    /\ triad_map' = map_add_triad(CurM, new_triad).triad_map
    /\ UNCHANGED <<transaction_pool, varsMinerM, varsV, varsP, varsS, varsC, varsX>>

\* TriangularLedger.add_transaction(transaction)
add_transaction(tx) ==
    /\ Len(transaction_pool) < MaxPool
    /\ transaction_pool' = Append(transaction_pool, tx)
    /\ UNCHANGED <<triad_map, genesis_triad, varsMinerM, varsV, varsP, varsS, varsC, varsX>>

(***************************************************************************)
(* Transactions of the threaded Miner and of the network handler: objects  *)
(* with a tx_hash, a transaction_data dict and attributes.  Of a           *)
(* transaction the model keeps which of the required fields are attributes *)
(* of the object (attrs), which are keys of transaction_data (data), the   *)
(* amount and the fee, and whether both addresses are hex strings of       *)
(* length 40 or 64.                                                        *)
(***************************************************************************)
\* _validate_transaction / validate_transaction: required_attrs, required_fields
required_attrs == {"from_addr", "to_addr", "amount", "fee", "timestamp"}

Transaction(tx_hash, attrs, data, amount, fee, addresses_hex) ==
    [ tx_hash |-> tx_hash, attrs |-> attrs, data |-> data, amount |-> amount,
      fee |-> fee, addresses_hex |-> addresses_hex ]

\* the classes the name Transaction of the network handler can stand for:
\* "base", the dataclass of core/data_types/base.py, whose only attributes
\* are transaction_data, tx_hash and timestamp; "accessors", a class that
\* also shows the keys of transaction_data as attributes, which
\* wallet_manager.update_balances reads
TransactionClasses == {"base", "accessors"}

\* attributes among required_attrs of Transaction(transaction_data=...,
\* tx_hash=..., timestamp=...) of class cls
AttrsOf(cls, data) ==
    IF cls = "base" THEN {"timestamp"} ELSE data \cup {"timestamp"}

\* tx_hash values of the transactions of the model
TxHashes == {"h1", "h2"}

\* amounts of the transactions of the model: negative, zero, positive
Amounts == {-1, 0, 10}

\* a transaction is complete with one of the amounts, or has a positive
\* amount and lacks one of the required fields
FieldsAndAmounts ==
    { <<{}, a>> : a \in Amounts } \cup { <<{f}, 10>> : f \in required_attrs }

\* transactions a local caller hands to Miner.add_transaction_to_pool, of
\* either class
LocalTransactions ==
    { Transaction(h, AttrsOf(cls, (required_attrs \ {"timestamp"}) \ v[1]) \ v[1],
                  (required_attrs \ {"timestamp"}) \ v[1], v[2], 1, TRUE) :
          h \in TxHashes, cls \in TransactionClasses, v \in FieldsAndAmounts }

\* transactions a caller hands to TriangularLedger.add_transaction itself
DirectTransactions ==
    { Transaction("h1", AttrsOf("base", required_attrs \ {"timestamp"}),
                  required_attrs \ {"timestamp"}, 10, 1, TRUE) }

\* _validate_transaction, were the amount not looked at
Miner_validate_transaction_AnyAmount(transaction) ==
    \A attr \in required_attrs : attr \in transaction.attrs \/ attr \in transaction.data

\* Miner._validate_transaction(transaction)
Miner_validate_transaction(transaction) ==
    /\ \A attr \in required_attrs : attr \in transaction.attrs \/ attr \in transaction.data
    /\ transaction.amount > 0

\* the test for a duplicate, were it to find none
InPool_Never(pool, tx_hash) == FALSE

\* add_transaction_to_pool: any(tx.tx_hash == transaction.tx_hash for tx in pool)
InPool(pool, tx_hash) == \E i \in 1 .. Len(pool) : pool[i].tx_hash = tx_hash

\* Miner.add_transaction_to_pool(transaction) on pool, run without another
\* thread in between: the pool it leaves
add_transaction_to_pool(pool, transaction) ==
    IF ~Miner_validate_transaction(transaction) THEN pool
    ELSE IF InPool(pool, transaction.tx_hash) THEN pool
    ELSE Append(pool, transaction)

\* Miner.add_transaction_to_pool(transaction), up to the append: the lock
\* Miner.transaction_pool_lock is taken, and released at once when the
\* transaction is invalid or its tx_hash is in the pool
SubmitCheck(transaction) ==
    /\ submitting = <<>>
    /\ Len(transaction_pool) < MaxPoolLen
    /\ submitting' = IF /\ Miner_validate_transaction(transaction)
                        /\ ~InPool(transaction_pool, transaction.tx_hash)
                     THEN <<transaction>> ELSE <<>>
    /\ UNCHANGED <<varsM, tx_broadcasts, varsV, varsS, varsC, varsX>>

\* Miner.add_transaction_to_pool: self.ledger.transaction_pool.append(transaction),
\* and the release of Miner.transaction_pool_lock
SubmitAppend ==
    /\ submitting # <<>>
    /\ transaction_pool' = Append(transaction_pool, submitting[1])
    /\ submitting' = <<>>
    /\ UNCHANGED <<triad_map, genesis_triad, varsMinerM, tx_broadcasts, varsV, varsS, varsC, varsX>>

\* MessageHandler.validate_transaction(transaction)
validate_transaction(transaction) ==
    /\ \A field \in required_attrs : field \in transaction.attrs
    /\ ~(transaction.amount <= 0 \/ transaction.fee < 0)
    /\ transaction.addresses_hex

\* tx_data of the transaction messages of peers: the keys of its
\* transaction_data and its amount; a fee that is negative or addresses
\* that are not hex strings come with complete fields and a positive amount
InboundMessages ==
    { [ tx_hash |-> h, transaction_data |-> (required_attrs \ {"timestamp"}) \ v[1],
        amount |-> v[2], fee |-> 1, addresses_hex |-> TRUE ] :
          h \in TxHashes, v \in FieldsAndAmounts }
    \cup
    { [ tx_hash |-> h, transaction_data |-> required_attrs \ {"timestamp"},
        amount |-> 10, fee |-> fx[1], addresses_hex |-> fx[2] ] :
          h \in TxHashes, fx \in {<<-1, TRUE>>, <<1, FALSE>>} }

\* MessageHandler.handle_transaction(tx_data), Transaction being class cls:
\* the transaction is built and validated, appended to the pool by
\* ledger.add_transaction under ledger.transaction_pool_lock, and broadcast
handle_transaction(tx_data, cls) ==
    LET tx == Transaction(tx_data.tx_hash, AttrsOf(cls, tx_data.transaction_data),
                          tx_data.transaction_data, tx_data.amount, tx_data.fee,
                          tx_data.addresses_hex)
    IN  /\ Len(transaction_pool) < MaxPoolLen
        /\ IF validate_transaction(tx)
           THEN /\ transaction_pool' = Append(transaction_pool, tx)
                /\ tx_broadcasts' = Append(tx_broadcasts, tx.tx_hash)
           ELSE UNCHANGED <<transaction_pool, tx_broadcasts>>
        /\ UNCHANGED <<triad_map, genesis_triad, varsMinerM, submitting, varsV, varsS, varsC, varsX>>

\* the keys handle_triad reads from triad_data
TriadDataKeys == {"triad_id", "depth", "hash_value", "parent_hashes"}

\* triad_data of a triad message
TriadData(keys, triad_id, depth, hash_value, parent_hashes) ==
    [ keys |-> keys, triad_id |-> triad_id, depth |-> depth, hash_value |-> hash_value,
      parent_hashes |-> parent_hashes ]

\* triad_data of the triad messages of peers on a ledger with Triads map: a
\* stored Triad again, or a new one with a hash that meets the target or
\* not, naming stored parents or one that is not stored; or such a message
\* lacking one of the keys
InboundTriads(map) ==
    { TriadData(ks, map[h].triad_id, map[h].depth, h, map[h].parent_hashes) :
          ks \in {TriadDataKeys, TriadDataKeys \ {"hash_value"}}, h \in DOMAIN map }
    \cup
    { TriadData(ks, h, DirectDepth(map, ps), h, ps) :
          ks \in {TriadDataKeys, TriadDataKeys \ {"hash_value"}},
          h \in CandidateHashes(map),
          ps \in SeqsUpTo(ParentChoicesM(map), MaxParents) }

\* validate_triad without its loop over parent_hashes
validate_triad_NoParents(triad, map) == StartsWithZeros(triad.hash_value, DIFFICULTY)

\* MessageHandler.validate_triad(triad), self.ledger._triad_map being map
validate_triad(triad, map) ==
    IF ~StartsWithZeros(triad.hash_value, DIFFICULTY) THEN FALSE
    ELSE \A i \in 1 .. Len(triad.parent_hashes) : triad.parent_hashes[i] \in DOMAIN map

\* MessageHandler.handle_triad(triad_data) on ledger L, sent being the Triads
\* handed to node.broadcast so far: the ledger and the broadcasts it leaves.
\* A key that triad_data lacks raises KeyError, which handle_triad catches.
handle_triad(L, sent, triad_data) ==
    IF triad_data.keys # TriadDataKeys THEN [ledger |-> L, broadcasts |-> sent]
    ELSE LET triad == Triad(triad_data.triad_id, triad_data.depth, triad_data.hash_value,
                            triad_data.parent_hashes)
         IN  IF validate_triad(triad, L.triad_map)
             THEN [ledger |-> map_add_triad(L, triad),
                   broadcasts |-> Append(sent, triad_data.hash_value)]
             ELSE [ledger |-> L, broadcasts |-> sent]

\* a triad message of a peer is handled
HandleTriad(triad_data) ==
    /\ Len(broadcasts) < MaxBroadcasts
    /\ (triad_data.hash_value \in DOMAIN triad_map)
          \/ (Cardinality(DOMAIN triad_map) < MaxDirectTriads)
    /\ genesis_triad' = handle_triad(CurM, broadcasts, triad_data).ledger.genesis_triad
    /\ triad_map' = handle_triad(CurM, broadcasts, triad_data).ledger.triad_map
    /\ broadcasts' = handle_triad(CurM, broadcasts, triad_data).broadcasts
    /\ UNCHANGED <<transaction_pool, node_running, shutdown_event, threads, thread_states,
                   pc, local, stop_pc, reward_balance, successful_mines,
                   varsV, varsP, varsS, varsC, varsX>>

(***************************************************************************)
(* The threaded Miner, seirchain/core/miner.py.  Thread "Miner-Thread-i"   *)
(* is worker i.  A worker's step is a stretch of Miner.mine between two    *)
(* points where it reads or writes what the other threads share; a step    *)
(* of a method of the ledger is not interleaved with another.              *)
(***************************************************************************)
Workers == 1 .. NumWorkers

Min(a, b) == IF a <= b THEN a ELSE b

\* mine: the nonce range of thread w
nonce_range_per_thread == MAX_NONCE_ATTEMPTS \div NumWorkers

nonce_start(w) == (w - 1) * nonce_range_per_thread

\* the end of the range, were every thread to search on to the last nonce
nonce_end_Whole(w) == MAX_NONCE_ATTEMPTS - 1

nonce_end(w) == nonce_start(w) + nonce_range_per_thread - 1

\* calculate_fractal_hash: the string tx_hashes, as a number that is
\* different for different sequences of tx_hash values
TxHashIndex(tx_hash) == IF tx_hash = "h1" THEN 1 ELSE 2

RECURSIVE TxHashesCode(_)
TxHashesCode(txs) ==
    IF txs = <<>> THEN 0
    ELSE TxHashesCode(SubSeq(txs, 1, Len(txs) - 1)) * 3 + TxHashIndex(txs[Len(txs)].tx_hash)

RECURSIVE Power(_, _)
Power(b, e) == IF e = 0 THEN 1 ELSE b * Power(b, e - 1)

\* more than TxHashesCode of any snapshot of the pool, which is no longer
\* than MaxPoolLen + 1
TxHashesCodes == Power(Cardinality(TxHashes) + 1, MaxPoolLen + 2)

\* calculate_fractal_hash: sha256(sha256("depth-nonce-tx_hashes")), a fixed
\* function of depth, nonce and the tx_hash values of the transactions.  The
\* last digit of the modelled hash is different for different arguments;
\* the digits before it are '0' for half of the arguments and '1' for the
\* others.
calculate_fractal_hash(depth, nonce, txs) ==
    [ i \in 1 .. HashLen |->
        IF i < HashLen THEN (depth + nonce + Len(txs)) % 2
        ELSE (depth * MAX_NONCE_ATTEMPTS + nonce) * TxHashesCodes + TxHashesCode(txs) ]

\* Miner.get_parent_triads()
get_parent_triads(L) ==
    LET tip_hashes == get_current_tip_triad_hashes(L)
    IN  [ i \in 1 .. Len(tip_hashes) |-> L.triad_map[tip_hashes[i]] ]

\* mine: Triad(triad_id="", depth=..., hash_value="", parent_hashes=[...])
CandidateOf(parents) ==
    Triad(<<>>,
          IF parents # <<>> THEN parents[1].depth + 1 ELSE 0,
          <<>>,
          [ i \in 1 .. Len(parents) |-> parents[i].triad_id ])

\* a worker that is not in the middle of "self.hashes_computed += 1"
NotLoaded == -1

\* the local variables of a worker outside a mining cycle
\* (returned: what ledger.add_triad returned in this cycle, "none" before the call)
IdleLocal(cycles) ==
    [ transactions |-> <<>>, triad |-> Triad(<<>>, 0, <<>>, <<>>), nonce |-> 0,
      returned |-> "none", cycles |-> cycles ]

Goto(w, at) == pc' = [pc EXCEPT ![w] = at]

\* Miner.start(): no thread alive; one thread per worker is created
MinerStart ==
    /\ \A w \in Workers : pc[w] = "unborn"
    /\ shutdown_event' = FALSE
    /\ thread_states' = [w \in Workers |-> "running"]
    /\ threads' = [w \in Workers |-> w]
    /\ pc' = [w \in Workers |-> "begin"]
    /\ UNCHANGED <<varsLedgerM, node_running, local, stop_pc, reward_balance,
                   broadcasts, successful_mines, varsV, varsP, varsS, varsC, varsX>>

\* Miner.stop(): shutdown_event.set()
MinerStopSet ==
    /\ stop_pc = "idle"
    /\ shutdown_event' = TRUE
    /\ stop_pc' = "join"
    /\ UNCHANGED <<varsLedgerM, node_running, threads, thread_states, pc, local,
                   reward_balance, broadcasts, successful_mines, varsV, varsP, varsS, varsC, varsX>>

\* Miner.stop(): the loop over self.threads, where the join of a thread that
\* has not ended times out, then self.threads = [] and
\* self.thread_states.clear(), which drops what the loop wrote
MinerStopJoin ==
    /\ stop_pc = "join"
    /\ threads' = <<>>
    /\ thread_states' = [w \in Workers |-> ""]
    /\ stop_pc' = "returned"
    /\ UNCHANGED <<varsLedgerM, node_running, shutdown_event, pc, local,
                   reward_balance, broadcasts, successful_mines, varsV, varsP, varsS, varsC, varsX>>

\* mine: self.thread_states[thread_name] = "running"
WorkerBegin(w) ==
    /\ pc[w] = "begin"
    /\ thread_states' = [thread_states EXCEPT ![w] = "running"]
    /\ Goto(w, "loop")
    /\ UNCHANGED <<varsLedgerM, node_running, shutdown_event, threads, local, stop_pc,
                   reward_balance, broadcasts, successful_mines, varsV, varsP, varsS, varsC, varsX>>

\* the test of the outer loop, were the event not looked at
WorkerLoop_IgnoresShutdown(w) ==
    /\ pc[w] = "loop"
    /\ local[w].cycles < MaxCycles
    /\ local' = [local EXCEPT ![w].transactions =
                                 SubSeq(transaction_pool, 1, Min(10, Len(transaction_pool))),
                              ![w].cycles = @ + 1]
    /\ Goto(w, "assemble")
    /\ UNCHANGED <<varsLedgerM, node_running, shutdown_event, threads, thread_states,
                   stop_pc, reward_balance, broadcasts, successful_mines, varsV, varsP, varsS, varsC, varsX>>

\* mine: "while not self.shutdown_event.is_set()", then the snapshot of the
\* transaction pool under ledger.transaction_pool_lock
WorkerLoop(w) ==
    /\ pc[w] = "loop"
    /\ IF shutdown_event
       THEN Goto(w, "exit") /\ UNCHANGED local
       ELSE /\ local[w].cycles < MaxCycles
            /\ local' = [local EXCEPT ![w].transactions =
                                         SubSeq(transaction_pool, 1,
                                                Min(10, Len(transaction_pool))),
                                      ![w].cycles = @ + 1]
            /\ Goto(w, "assemble")
    /\ UNCHANGED <<varsLedgerM, node_running, shutdown_event, threads, thread_states,
                   stop_pc, reward_balance, broadcasts, successful_mines, varsV, varsP, varsS, varsC, varsX>>

\* mine: get_parent_triads(), the new Triad, and the first nonce;
\* random.randint raises ValueError on an empty range, which ends the cycle
WorkerAssemble(w) ==
    /\ pc[w] = "assemble"
    /\ IF nonce_range_per_thread < 1
       THEN /\ Goto(w, "loop")
            /\ local' = [local EXCEPT ![w] = IdleLocal(@.cycles)]
       ELSE /\ \E n \in nonce_start(w) .. nonce_end(w) :
                 local' = [local EXCEPT ![w].triad = CandidateOf(get_parent_triads(CurM)),
                                        ![w].nonce = n]
            /\ Goto(w, "search")
    /\ UNCHANGED <<varsLedgerM, node_running, shutdown_event, threads, thread_states,
                   stop_pc, reward_balance, broadcasts, successful_mines, varsV, varsP, varsS, varsC, varsX>>

\* the test of the proof-of-work loop, were the event not looked at
WorkerSearch_IgnoresShutdown(w) ==
    /\ pc[w] = "search"
    /\ Goto(w, "hash")
    /\ UNCHANGED <<varsLedgerM, node_running, shutdown_event, threads, thread_states,
                   local, stop_pc, reward_balance, broadcasts, successful_mines,
                   varsV, varsP, varsS, varsC, varsX>>

\* mine: the test of the proof-of-work loop, "while not
\* self.shutdown_event.is_set()"; when the event is set the candidate is
\* dropped ("if not solution_found: continue")
WorkerSearch(w) ==
    /\ pc[w] = "search"
    /\ IF shutdown_event
       THEN /\ Goto(w, "loop")
            /\ local' = [local EXCEPT ![w] = IdleLocal(@.cycles)]
       ELSE /\ Goto(w, "hash")
            /\ UNCHANGED local
    /\ UNCHANGED <<varsLedgerM, node_running, shutdown_event, threads, thread_states,
                   stop_pc, reward_balance, broadcasts, successful_mines, varsV, varsP, varsS, varsC, varsX>>

\* mine: the body of the proof-of-work loop after the hash is computed; on
\* a solution triad_id is set
HashOutcome(w) ==
    LET h == calculate_fractal_hash(local[w].triad.depth, local[w].nonce,
                                    local[w].transactions)
    IN  IF StartsWithZeros(h, DIFFICULTY)
        THEN /\ local' = [local EXCEPT ![w].triad.hash_value = h,
                                       ![w].triad.triad_id = h]
             /\ Goto(w, "submit")
        ELSE IF local[w].nonce + 1 > nonce_end(w)
             THEN /\ local' = [local EXCEPT ![w] = IdleLocal(@.cycles)]
                  /\ Goto(w, "loop")
             ELSE /\ local' = [local EXCEPT ![w].nonce = @ + 1]
                  /\ Goto(w, "search")

\* mine: the body of the proof-of-work loop, the metrics left aside
WorkerHash(w) ==
    /\ pc[w] = "hash"
    /\ HashOutcome(w)
    /\ UNCHANGED <<varsLedgerM, node_running, shutdown_event, threads, thread_states,
                   stop_pc, reward_balance, broadcasts, successful_mines, varsV, varsP, varsS, varsC, varsX>>

\* mine: calculate_fractal_hash(triad_node, nonce), then the first half of
\* "self.hashes_computed += 1", the read of the attribute; no lock is held
WorkerHashLoad(w) ==
    /\ pc[w] = "hash"
    /\ count_read[w] = NotLoaded
    /\ hash_calls' = hash_calls + 1
    /\ count_read' = [count_read EXCEPT ![w] = hashes_computed]
    /\ UNCHANGED <<varsM, varsV, varsP, varsS, varsC, manager_wallets, hashes_computed>>

\* mine: the second half of "self.hashes_computed += 1", the write of the
\* value read plus one, then the rest of the body of the proof-of-work loop
WorkerHashStore(w) ==
    /\ pc[w] = "hash"
    /\ count_read[w] # NotLoaded
    /\ hashes_computed' = count_read[w] + 1
    /\ count_read' = [count_read EXCEPT ![w] = NotLoaded]
    /\ HashOutcome(w)
    /\ UNCHANGED <<varsLedgerM, node_running, shutdown_event, threads, thread_states,
                   stop_pc, reward_balance, broadcasts, successful_mines, varsV, varsP,
                   varsS, varsC, manager_wallets, hash_calls>>

\* mine: under ledger.transaction_pool_lock, ledger.add_triad(triad), whose
\* return value is dropped, then ledger.save_ledger(...), a method the map
\* ledger does not have: the AttributeError is caught and logged
WorkerSubmit(w) ==
    /\ pc[w] = "submit"
    /\ genesis_triad' = map_add_triad(CurM, local[w].triad).genesis_triad
    /\ triad_map' = map_add_triad(CurM, local[w].triad).triad_map
    /\ local' = [local EXCEPT ![w].returned =
                                 IF map_add_triad_result(CurM, local[w].triad)
                                 THEN "True" ELSE "False"]
    /\ Goto(w, "finish")
    /\ UNCHANGED <<transaction_pool, node_running, shutdown_event, threads,
                   thread_states, stop_pc, reward_balance, broadcasts,
                   successful_mines, varsV, varsP, varsS, varsC, varsX>>

\* thread w is inside "with self.ledger.transaction_pool_lock:" of the
\* submit step
HoldsPoolLock(w) == pc[w] = "locked"

\* no thread holds ledger.transaction_pool_lock
PoolLockFree == \A w \in Workers : ~HoldsPoolLock(w)

\* mine: the test of the outer loop and the snapshot of the pool, for which
\* the thread waits until ledger.transaction_pool_lock is free
WorkerSnapshot(w) ==
    /\ shutdown_event \/ PoolLockFree
    /\ WorkerLoop(w)

\* mine: the thread takes ledger.transaction_pool_lock and calls
\* ledger.add_triad(triad), whose return value is dropped
WorkerLockAndAdd(w) ==
    /\ pc[w] = "submit"
    /\ PoolLockFree
    /\ genesis_triad' = map_add_triad(CurM, local[w].triad).genesis_triad
    /\ triad_map' = map_add_triad(CurM, local[w].triad).triad_map
    /\ local' = [local EXCEPT ![w].returned =
                                 IF map_add_triad_result(CurM, local[w].triad)
                                 THEN "True" ELSE "False"]
    /\ Goto(w, "locked")
    /\ UNCHANGED <<transaction_pool, node_running, shutdown_event, threads,
                   thread_states, stop_pc, reward_balance, broadcasts,
                   successful_mines, varsV, varsP, varsS, varsC, varsX>>

\* mine: still inside the with block, self.ledger.save_ledger(NETWORK_NAME)
\* in its try block: the ledger writes its file, or (the map ledger, which
\* has no such method) the call ends in an AttributeError that is caught
\* and logged; then the with block is left and the lock is released
WorkerSaveLedger(w) ==
    /\ pc[w] = "locked"
    /\ \E outcome \in {"written", "AttributeError"} : Goto(w, "finish")
    /\ UNCHANGED <<varsLedgerM, node_running, shutdown_event, threads, thread_states,
                   local, stop_pc, reward_balance, broadcasts, successful_mines,
                   varsV, varsP, varsS, varsC, varsX>>

\* mine: the reward, the broadcast, the metrics
WorkerFinish(w) ==
    /\ pc[w] = "finish"
    /\ reward_balance' = reward_balance + MINING_REWARD
    /\ broadcasts' = IF node_running
                     THEN Append(broadcasts, local[w].triad.hash_value)
                     ELSE broadcasts
    /\ successful_mines' = successful_mines + 1
    /\ local' = [local EXCEPT ![w] = IdleLocal(@.cycles)]
    /\ Goto(w, "loop")
    /\ UNCHANGED <<varsLedgerM, node_running, shutdown_event, threads, thread_states,
                   stop_pc, varsV, varsP, varsS, varsC, varsX>>

\* mine: self.thread_states[thread_name] = "stopped"; the thread ends
WorkerExit(w) ==
    /\ pc[w] = "exit"
    /\ thread_states' = [thread_states EXCEPT ![w] = "stopped"]
    /\ Goto(w, "done")
    /\ UNCHANGED <<varsLedgerM, node_running, shutdown_event, threads, local, stop_pc,
                   reward_balance, broadcasts, successful_mines, varsV, varsP, varsS, varsC, varsX>>

(***************************************************************************)
(* The single-threaded Miner, seirchain/miner.py.                          *)
(* Its ledger is TriangularLedger of seirchain/triangular_ledger/           *)
(* triangular_ledger.py, the Triads are those of seirchain/data_types/     *)
(* triad.py, the pool holds TransactionNodes.  A call of a method is one   *)
(* step: there is one thread.                                              *)
(***************************************************************************)
\* TransactionNodes handed to add_transaction_to_pool: the transaction and its fee
TransactionNodes == { [tx |-> "t1", fee |-> 1], [tx |-> "t2", fee |-> 2] }

\* the Miner with its ledger and wallets
MinerS(pool, stats, funds, genesis, map) ==
    [ transaction_pool |-> pool, mining_stats |-> stats, wallets |-> funds,
      genesis_triad |-> genesis, triad_map |-> map ]

CurS == MinerS(miner_pool, mining_stats, miner_wallets, ledger_genesis, ledger_map)

\* Miner.add_transaction_to_pool(tx_node)
add_transaction_to_pool_S(tx_node) ==
    /\ Len(miner_pool) < MaxMinerPool
    /\ miner_pool' = Append(miner_pool, tx_node)
    /\ UNCHANGED <<mining_stats, miner_wallets, ledger_genesis, ledger_map,
                   varsV, varsM, varsP, varsC, varsX>>

\* _get_transactions_for_triad: num_to_select
num_to_select(pool) == Min(Len(pool), MAX_TRANSACTIONS_PER_TRIAD)

\* _get_transactions_for_triad: the pool it leaves, self.transaction_pool[num_to_select:]
remaining_pool(pool) == SubSeq(pool, num_to_select(pool) + 1, Len(pool))

\* _get_transactions_for_triad: what it returns, self.transaction_pool[:num_to_select]
get_transactions_for_triad(pool) == SubSeq(pool, 1, num_to_select(pool))

\* the ledger's get_current_tip_triad_hashes(): the breadth-first loop is
\* the one of the map ledger
tip_hashes_of(M) ==
    IF M.genesis_triad = <<>> THEN <<>>
    ELSE LET tips == TipsFrom(M.triad_map, M.genesis_triad, {}, <<>>)
         IN  IF tips # <<>> THEN tips ELSE M.genesis_triad

\* mine_next_triad: candidate_parents, the Triads the tips resolve to
candidate_parents(M) ==
    SelectSeq(tip_hashes_of(M), LAMBDA h : h \in DOMAIN M.triad_map)

\* miner_address arguments of mine_next_triad: the name of a wallet, or, as
\* run_node_with_visualizer.py passes it, a string that is no wallet's name
MinerAddressesS == MinerAddrs \cup {"wallet_id"}

\* Wallets.get_wallet_id_by_name(name): <<id>>, or <<>> for None; a wallet
\* stands under its name here
get_wallet_id_by_name(funds, name) == IF name \in DOMAIN funds THEN <<name>> ELSE <<>>

\* the sum without the fees
total_fees_None(tx_nodes) == 0

\* mine_next_triad: sum(tx_node.transaction.fee for tx_node in transactions_for_triad)
RECURSIVE total_fees(_)
total_fees(tx_nodes) ==
    IF tx_nodes = <<>> THEN 0 ELSE Head(tx_nodes).fee + total_fees(Tail(tx_nodes))

\* mine_next_triad: new_triad_depth at the proof of work
new_triad_depth(M) ==
    IF M.genesis_triad = <<>> THEN 0
    ELSE IF candidate_parents(M) # <<>>
         THEN MaxOfSet({ M.triad_map[h].depth : h \in SeqToSet(candidate_parents(M)) }) + 1
         ELSE 0

\* The proof-of-work loop hashes a Triad whose triad_id is drawn at random
\* and whose timestamp is the clock: what it finds is not fixed by the
\* arguments.  found: <<>> when none of the MAX_NONCE_ATTEMPTS hashes meets
\* the difficulty, <<h, k>> when the k-th does, with hash h.
ProofOfWorkOutcomes(M) ==
    {<<>>} \cup { <<h, k>> : h \in FreshHashes(M.triad_map), k \in {1, MAX_NONCE_ATTEMPTS} }

\* the ledger's add_triad(new_triad), called by mine_next_triad: the genesis
\* Triad is stored and True returned; another Triad is stored, and then
\* parent_triad.add_child(new_triad) raises AttributeError, Triad of
\* data_types/triad.py having no add_child, when the parent is found
ledger_add_triad(M, new_triad) ==
    IF M.genesis_triad = <<>>
    THEN [ genesis_triad |-> <<new_triad.hash>>,
           triad_map |-> (new_triad.hash :> new_triad) @@ M.triad_map,
           returned |-> "True" ]
    ELSE [ genesis_triad |-> M.genesis_triad,
           triad_map |-> (new_triad.hash :> new_triad) @@ M.triad_map,
           returned |-> IF \E i \in 1 .. Len(new_triad.parent_hashes) :
                               new_triad.parent_hashes[i] \in DOMAIN M.triad_map
                        THEN "raises" ELSE "False" ]

\* Miner.mine_next_triad(miner_address) on Miner M, random.choice taking
\* the parent at position choice and the proof of work ending as found:
\* the Miner it leaves, with what the call returned
mine_next_triad(M, miner_address, choice, found) ==
    LET parents == candidate_parents(M)
        parent_hashes == IF tip_hashes_of(M) = <<>> THEN <<>> ELSE <<parents[choice]>>
        transactions_for_triad == get_transactions_for_triad(M.transaction_pool)
        coinbase_amount == MINING_REWARD + total_fees(transactions_for_triad)
        drained == [M EXCEPT !.transaction_pool = remaining_pool(M.transaction_pool)]
        miner_wallet_id == get_wallet_id_by_name(M.wallets, miner_address)
    IN  IF tip_hashes_of(M) # <<>> /\ parents = <<>>
        THEN [miner |-> M, returned |-> "None"]
        ELSE IF found = <<>>
        THEN [miner |-> [drained EXCEPT !.mining_stats.hash_attempts = @ + MAX_NONCE_ATTEMPTS],
              returned |-> "None"]
        ELSE LET prospective_triad ==
                     NewTriad(found[1], new_triad_depth(M), parent_hashes,
                              <<"coinbase">> \o [i \in 1 .. Len(transactions_for_triad) |->
                                                  transactions_for_triad[i].tx],
                              miner_address)
                 added == ledger_add_triad(M, prospective_triad)
                 hashed == [drained EXCEPT !.mining_stats.hash_attempts = @ + found[2],
                                           !.genesis_triad = added.genesis_triad,
                                           !.triad_map = added.triad_map]
             IN  IF added.returned = "True"
                 THEN [miner |-> [hashed EXCEPT !.mining_stats.triads_mined_session = @ + 1,
                                                !.wallets =
                                                    IF miner_wallet_id # <<>>
                                                    THEN add_funds(@, miner_wallet_id[1],
                                                                   coinbase_amount)
                                                    ELSE @],
                       returned |-> "Triad"]
                 ELSE [miner |-> hashed,
                       returned |-> IF added.returned = "False" THEN "None" ELSE "raises"]

\* the calls of mine_next_triad on Miner M: <<miner_address, choice, found>>
MineCalls(M) ==
    { <<a, c, f>> : a \in MinerAddressesS,
                    c \in IF candidate_parents(M) = <<>> THEN {1}
                          ELSE 1 .. Len(candidate_parents(M)),
                    f \in ProofOfWorkOutcomes(M) }

\* a call miner.mine_next_triad(miner_address)
MineNextTriad(miner_address, choice, found) ==
    LET after == mine_next_triad(CurS, miner_address, choice, found).miner IN
    /\ mining_stats.hash_attempts + MAX_NONCE_ATTEMPTS <= MaxHashAttempts
    /\ Cardinality(DOMAIN ledger_map) < MaxMinerTriads
    /\ miner_pool' = after.transaction_pool
    /\ mining_stats' = after.mining_stats
    /\ miner_wallets' = after.wallets
    /\ ledger_genesis' = after.genesis_triad
    /\ ledger_map' = after.triad_map
    /\ UNCHANGED <<varsV, varsM, varsP, varsC, varsX>>

(***************************************************************************)
(* Wallet and WalletManager of seirchain/wallet_manager.py.  An address is *)
(* a valid hex string of 64 characters; a wallet is kept by its balance.   *)
(***************************************************************************)
\* largest balance of a wallet
MaxBalance == 3

\* addresses of wallets; none is the zero address of a coinbase transaction
ManagerAddrs == {"a1", "a2", "a3"}

\* Wallet.update_balance(delta) on a wallet with that balance: <<>> when it
\* raises ValueError, else the new balance
update_balance(balance, delta) ==
    IF balance + delta < 0 THEN <<>> ELSE <<balance + delta>>

\* WalletManager.get_wallet(address): the wallets afterwards, with a new
\* Wallet of balance 0.0 for an address that had none
get_wallet(W, address) ==
    IF address \in DOMAIN W THEN W ELSE (address :> 0) @@ W

\* WalletManager.add_wallet(address, initial_balance)
add_wallet(W, address, initial_balance) ==
    IF address \in DOMAIN W THEN W ELSE (address :> initial_balance) @@ W

\* WalletManager.update_balances(transaction) for a transaction whose
\* from_addr is not the zero address: what it returns and the wallets it leaves
update_balances(W, tx) ==
    LET created == get_wallet(get_wallet(W, tx.from_addr), tx.to_addr)
        debited == update_balance(created[tx.from_addr], (-tx.amount) - tx.fee)
    IN  IF debited = <<>> THEN [result |-> "False", wallets |-> created]
        ELSE LET afterDebit == [created EXCEPT ![tx.from_addr] = debited[1]]
                 credited == update_balance(afterDebit[tx.to_addr], tx.amount)
             IN  IF credited = <<>> THEN [result |-> "False", wallets |-> afterDebit]
                 ELSE [result |-> "True",
                       wallets |-> [afterDebit EXCEPT ![tx.to_addr] = credited[1]]]

\* the transactions handed to update_balances: any amount and fee between
\* two wallets, or from a wallet to itself
ManagerTransactions ==
    [ from_addr : ManagerAddrs, to_addr : ManagerAddrs, amount : (-1) .. 2, fee : 0 .. 1 ]

\* a caller adds a wallet
AddWallet(address, initial_balance) ==
    /\ manager_wallets' = add_wallet(manager_wallets, address, initial_balance)
    /\ UNCHANGED <<varsV, varsM, varsP, varsS, varsC, hashes_computed, hash_calls, count_read>>

\* a caller hands a transaction to update_balances
UpdateBalances(tx) ==
    /\ \A a \in DOMAIN update_balances(manager_wallets, tx).wallets :
          update_balances(manager_wallets, tx).wallets[a] <= MaxBalance
    /\ manager_wallets' = update_balances(manager_wallets, tx).wallets
    /\ UNCHANGED <<varsV, varsM, varsP, varsS, varsC, hashes_computed, hash_calls, count_read>>

(***************************************************************************)
(* Configuration checks: Miner.__init__ and Miner._validate_config of      *)
(* core/miner.py, validate_config and run_simulation of core/simulate.py.  *)
(***************************************************************************)
\* the largest integer a configuration attribute takes here
MaxConfigInt == 2

\* Python values: an int, the float n.0, a bool (False is 0, True is 1), a
\* str, and the mark of an attribute that is not set
IntValue(n) == [kind |-> "int", v |-> n]

FloatValue(n) == [kind |-> "float", v |-> n]

BoolValue(n) == [kind |-> "bool", v |-> n]

StrValue == [kind |-> "str", v |-> 0]

Absent == [kind |-> "absent", v |-> 0]

\* isinstance(x, int): bool is a subclass of int
isinstance_int(x) == x.kind \in {"int", "bool"}

\* isinstance(x, (int, float))
isinstance_int_float(x) == x.kind \in {"int", "bool", "float"}

\* hasattr(config, name), for the value found under name
hasattr(x) == x.kind # "absent"

NonNumbers == {StrValue}

ConfigValues ==
    { IntValue(n) : n \in (-1) .. MaxConfigInt } \cup { FloatValue(n) : n \in {-1, 0, 1} }
        \cup { BoolValue(n) : n \in {0, 1} } \cup NonNumbers

\* the values handed to Miner(...) as num_threads; start() creates a thread
\* for each of range(num_threads)
NumThreadsValues ==
    { IntValue(n) : n \in (-1) .. NumWorkers } \cup {FloatValue(1), BoolValue(1)} \cup NonNumbers

MinerAttrs == {"DIFFICULTY", "MAX_NONCE_ATTEMPTS"}

SimulationAttrs ==
    {"SIMULATION_DURATION_MINUTES", "TRANSACTIONS_PER_ITERATION", "SIMULATION_LOOP_INTERVAL",
     "NUM_SIMULATED_WALLETS", "MAX_DEPTH"}

ConfigAttrs == MinerAttrs \cup SimulationAttrs

\* the configuration the ledgers and Miners above run with
ModelConfig ==
    [a \in ConfigAttrs |->
        CASE a = "DIFFICULTY" -> IntValue(DIFFICULTY)
          [] a = "MAX_NONCE_ATTEMPTS" -> IntValue(MAX_NONCE_ATTEMPTS)
          [] a = "MAX_DEPTH" -> IntValue(MAX_DEPTH)
          [] OTHER -> IntValue(1)]

\* the values an attribute can hold; only the attributes the Miner tests
\* with hasattr may be missing
ValuesOf(a) == ConfigValues \cup (IF a \in MinerAttrs THEN {Absent} ELSE {})

\* configurations that differ from ModelConfig in at most two attributes
Configs ==
    UNION { { [ModelConfig EXCEPT ![a] = x, ![b] = y] : x \in ValuesOf(a), y \in ValuesOf(b) } :
            a \in ConfigAttrs, b \in ConfigAttrs }

\* _validate_config without the test of config.DIFFICULTY
_validate_config_NoDifficulty(num_threads, cfg) ==
    IF ~isinstance_int(num_threads) \/ num_threads.v <= 0 THEN "ValueError"
    ELSE IF \/ ~hasattr(cfg["MAX_NONCE_ATTEMPTS"])
            \/ ~isinstance_int(cfg["MAX_NONCE_ATTEMPTS"])
            \/ cfg["MAX_NONCE_ATTEMPTS"].v < 1 THEN "ValueError"
    ELSE "None"

\* Miner._validate_config: what it raises, "None" when it returns
_validate_config(num_threads, cfg) ==
    IF ~isinstance_int(num_threads) \/ num_threads.v <= 0 THEN "ValueError"
    ELSE IF \/ ~hasattr(cfg["DIFFICULTY"])
            \/ ~isinstance_int(cfg["DIFFICULTY"])
            \/ cfg["DIFFICULTY"].v < 1 THEN "ValueError"
    ELSE IF \/ ~hasattr(cfg["MAX_NONCE_ATTEMPTS"])
            \/ ~isinstance_int(cfg["MAX_NONCE_ATTEMPTS"])
            \/ cfg["MAX_NONCE_ATTEMPTS"].v < 1 THEN "ValueError"
    ELSE "None"

\* simulate.validate_config: what it raises, "None" when it returns
validate_config(cfg) ==
    IF \/ ~isinstance_int(cfg["SIMULATION_DURATION_MINUTES"])
       \/ cfg["SIMULATION_DURATION_MINUTES"].v <= 0 THEN "ValueError"
    ELSE IF \/ ~isinstance_int(cfg["TRANSACTIONS_PER_ITERATION"])
            \/ cfg["TRANSACTIONS_PER_ITERATION"].v < 0 THEN "ValueError"
    ELSE IF \/ ~isinstance_int_float(cfg["SIMULATION_LOOP_INTERVAL"])
            \/ cfg["SIMULATION_LOOP_INTERVAL"].v <= 0 THEN "ValueError"
    ELSE IF \/ ~isinstance_int(cfg["NUM_SIMULATED_WALLETS"])
            \/ cfg["NUM_SIMULATED_WALLETS"].v <= 0 THEN "ValueError"
    ELSE IF \/ ~isinstance_int(cfg["MAX_DEPTH"])
            \/ cfg["MAX_DEPTH"].v <= 0 THEN "ValueError"
    ELSE "None"

\* no call Miner(...) made yet
NoMiner == [state |-> "none", num_threads |-> IntValue(0)]

\* Miner.__init__: the fields are set, then _validate_config runs
MinerInit(num_threads, cfg) ==
    [state |-> IF _validate_config(num_threads, cfg) = "None" THEN "constructed"
               ELSE _validate_config(num_threads, cfg),
     num_threads |-> num_threads]

\* a caller builds a Miner: Miner(ledger, node, wallet_manager, miner_address, num_threads)
ConstructMiner(num_threads) ==
    /\ sim_pc = "idle"
    /\ miner_instance = NoMiner
    /\ miner_instance' = MinerInit(num_threads, config)
    /\ UNCHANGED <<varsV, varsM, varsP, varsS, config, sim_pc, varsX>>

\* run_simulation up to "validate_config()": it returns when that raises
SimulationValidate ==
    /\ sim_pc = "idle"
    /\ miner_instance = NoMiner
    /\ sim_pc' = IF validate_config(config) = "None" THEN "validated" ELSE "returned"
    /\ UNCHANGED <<varsV, varsM, varsP, varsS, config, miner_instance, varsX>>

\* run_simulation: the ledger, the wallets and the Node, then
\* Miner(current_ledger, node_instance, main_wallets_manager, miner_address),
\* with num_threads at its default of 1; what Miner raises leaves run_simulation
SimulationCreateMiner ==
    /\ sim_pc = "validated"
    /\ miner_instance' = MinerInit(IntValue(1), config)
    /\ sim_pc' = IF MinerInit(IntValue(1), config).state = "constructed" THEN "created"
                 ELSE "raised"
    /\ UNCHANGED <<varsV, varsM, varsP, varsS, config, varsX>>

\* Miner.start() on the Miner that was built, by its caller or by
\* run_simulation ("miner_instance.start()"): a thread for each of
\* range(self.num_threads)
StartConstructed ==
    /\ miner_instance.state = "constructed"
    /\ sim_pc \in {"idle", "created"}
    /\ \A w \in Workers : pc[w] = "unborn"
    /\ shutdown_event' = FALSE
    /\ thread_states' = [w \in Workers |->
                            IF w <= miner_instance.num_threads.v THEN "running" ELSE ""]
    /\ threads' = [i \in 1 .. miner_instance.num_threads.v |-> i]
    /\ pc' = [w \in Workers |-> IF w <= miner_instance.num_threads.v THEN "begin" ELSE "unborn"]
    /\ sim_pc' = IF sim_pc = "created" THEN "mining" ELSE sim_pc
    /\ UNCHANGED <<varsLedgerM, node_running, local, stop_pc, reward_balance,
                   broadcasts, successful_mines, varsV, varsP, varsS, config, miner_instance, varsX>>

(***************************************************************************)
(* Specifications.                                                         *)
(***************************************************************************)
\* the validating ledger after __init__
InitLedgerV ==
    /\ triads = << >>
    /\ depth_key = <<>>
    /\ max_current_depth = -1
    /\ wallets = [a \in MinerAddrs |-> 0]
    /\ accepted = <<>>

\* the map ledger after __init__(max_depth), with no genesis Triad
InitLedgerM ==
    /\ triad_map = << >>
    /\ genesis_triad = <<>>
    /\ transaction_pool = <<>>

\* the threaded Miner after __init__
InitMiner ==
    /\ shutdown_event = FALSE
    /\ threads = <<>>
    /\ thread_states = [w \in Workers |-> ""]
    /\ pc = [w \in Workers |-> "unborn"]
    /\ local = [w \in Workers |-> IdleLocal(0)]
    /\ stop_pc = "idle"
    /\ reward_balance = 0
    /\ broadcasts = <<>>
    /\ successful_mines = 0

\* no call of Miner.add_transaction_to_pool in progress, nothing broadcast
InitPool ==
    /\ submitting = <<>>
    /\ tx_broadcasts = <<>>

\* the single-threaded Miner after __init__, on a ledger without genesis Triad
InitMinerS ==
    /\ miner_pool = <<>>
    /\ mining_stats = [hash_attempts |-> 0, triads_mined_session |-> 0]
    /\ miner_wallets = [a \in MinerAddrs |-> 0]
    /\ ledger_genesis = <<>>
    /\ ledger_map = << >>

\* a Miner built under ModelConfig, with a thread for each of Workers
InitConfigured ==
    /\ config = ModelConfig
    /\ miner_instance = MinerInit(IntValue(NumWorkers), ModelConfig)
    /\ sim_pc = "idle"

\* WalletManager() after __init__
InitManager == manager_wallets = << >>

\* Miner.__init__: self.hashes_computed = 0; no thread has hashed yet
InitMetrics ==
    /\ hashes_computed = 0
    /\ hash_calls = 0
    /\ count_read = [w \in Workers |-> NotLoaded]

InitV ==
    /\ InitLedgerV /\ InitLedgerM /\ InitMiner /\ InitPool /\ InitMinerS /\ InitManager /\ InitMetrics
    /\ InitConfigured
    /\ node_running = FALSE

StepAddTriad ==
    \/ \E c \in Resubmitted(triads), g \in BOOLEAN : AddTriad(c, g)
    \/ \E h \in CandidateHashes(triads), d \in 0 .. (MAX_DEPTH + 1),
          ps \in SeqsUpTo(ParentChoices(triads), MaxParents),
          txs \in SeqsUpTo(Txs, MaxTx), m \in MinerAddrs, g \in BOOLEAN :
          AddTriad(NewTriad(h, d, ps, txs, m), g)

StepInitializeGenesis ==
    \E m \in MinerAddrs, mined \in MinedOutcomes(triads) : InitializeGenesisTriad(m, mined)

NextV ==
    \/ StepAddTriad /\ UNCHANGED <<varsM, varsP, varsS, varsC, varsX>>
    \/ StepInitializeGenesis /\ UNCHANGED <<varsM, varsP, varsS, varsC, varsX>>

SpecV == InitV /\ [][NextV]_vars

InitM ==
    /\ InitLedgerV /\ InitLedgerM /\ InitMiner /\ InitPool /\ InitMinerS /\ InitManager /\ InitMetrics
    /\ InitConfigured
    /\ node_running = TRUE

StepAddTriadM == \E new_triad \in CallsM(triad_map) : AddTriadM(new_triad)

StepAddTransaction == \E tx \in DirectTransactions : add_transaction(tx)

StepWorker ==
    \E w \in Workers :
        \/ WorkerBegin(w)
        \/ WorkerLoop(w)
        \/ WorkerAssemble(w)
        \/ WorkerSearch(w)
        \/ WorkerHash(w)
        \/ WorkerSubmit(w)
        \/ WorkerFinish(w)
        \/ WorkerExit(w)

NextM ==
    \/ StepAddTriadM
    \/ StepAddTransaction
    \/ MinerStart
    \/ MinerStopSet
    \/ MinerStopJoin
    \/ StepWorker

SpecM == InitM /\ [][NextM]_vars

\* the single-threaded Miner, its callers adding transactions and mining
StepAddTransactionToPool == \E tx_node \in TransactionNodes : add_transaction_to_pool_S(tx_node)

StepMineNextTriad == \E call \in MineCalls(CurS) : MineNextTriad(call[1], call[2], call[3])

NextS ==
    \/ StepAddTransactionToPool
    \/ StepMineNextTriad

SpecS == InitM /\ [][NextS]_vars

\* the threaded Miner on a map ledger that only its workers extend, with
\* callers of TriangularLedger.add_transaction
NextW ==
    \/ StepAddTransaction
    \/ MinerStart
    \/ MinerStopSet
    \/ MinerStopJoin
    \/ StepWorker

SpecW == InitM /\ [][NextW]_vars

\* a step of thread w
WorkerStep(w) ==
    \/ WorkerBegin(w)
    \/ WorkerLoop(w)
    \/ WorkerAssemble(w)
    \/ WorkerSearch(w)
    \/ WorkerHash(w)
    \/ WorkerSubmit(w)
    \/ WorkerFinish(w)
    \/ WorkerExit(w)

\* every thread that can take a step is scheduled in the end: its sleeps
\* end, and the locks it waits for are released
FairWorkers == \A w \in Workers : WF_vars(WorkerStep(w))

\* the same Miner with its threads scheduled fairly
SpecWFair == InitM /\ [][NextW]_vars /\ FairWorkers

\* any configuration, before a Miner is built or run_simulation is called
InitC ==
    /\ InitLedgerV /\ InitLedgerM /\ InitMiner /\ InitPool /\ InitMinerS /\ InitManager /\ InitMetrics
    /\ node_running = FALSE
    /\ config \in Configs
    /\ miner_instance = NoMiner
    /\ sim_pc = "idle"

StepConstructMiner == \E num_threads \in NumThreadsValues : ConstructMiner(num_threads)

\* a caller that builds and starts a Miner, or a call of run_simulation
NextC ==
    \/ StepConstructMiner
    \/ SimulationValidate
    \/ SimulationCreateMiner
    \/ StartConstructed

SpecC == InitC /\ [][NextC]_vars

\* the threaded Miner on a map ledger that only its workers extend, with
\* local callers of Miner.add_transaction_to_pool and the network handler;
\* Miner.stop() is not called
StepSubmit == \E transaction \in LocalTransactions : SubmitCheck(transaction)

StepHandleTransaction ==
    \E tx_data \in InboundMessages, cls \in TransactionClasses : handle_transaction(tx_data, cls)

\* a step of a worker while nobody calls Miner.stop()
StepWorkerMining ==
    \E w \in Workers :
        \/ WorkerBegin(w)
        \/ WorkerLoop(w)
        \/ WorkerAssemble(w)
        \/ WorkerSearch(w)
        \/ WorkerHash(w)
        \/ WorkerSubmit(w)
        \/ WorkerFinish(w)

NextP ==
    \/ StepSubmit
    \/ SubmitAppend
    \/ StepHandleTransaction
    \/ MinerStart
    \/ StepWorkerMining

SpecP == InitM /\ [][NextP]_vars

\* the map ledger alone, with callers of add_triad that name up to
\* MaxParents parents
StepAddTriadL == \E new_triad \in CallsL(triad_map) : AddTriadM(new_triad)

NextL == StepAddTriadL

SpecL == InitM /\ [][NextL]_vars

\* the threaded Miner with its metrics, on a map ledger that only its
\* workers extend; each "self.hashes_computed += 1" is a read and a write
StepWorkerCounting ==
    \E w \in Workers :
        \/ WorkerBegin(w)
        \/ WorkerLoop(w)
        \/ WorkerAssemble(w)
        \/ WorkerSearch(w)
        \/ WorkerHashLoad(w)
        \/ WorkerHashStore(w)
        \/ WorkerSubmit(w)
        \/ WorkerFinish(w)

NextG ==
    \/ MinerStart
    \/ StepWorkerCounting

SpecG == InitM /\ [][NextG]_vars

\* the threaded Miner on a map ledger that only its workers extend, with
\* ledger.transaction_pool_lock taken and released in steps of their own
StepWorkerLocking ==
    \E w \in Workers :
        \/ WorkerBegin(w)
        \/ WorkerSnapshot(w)
        \/ WorkerAssemble(w)
        \/ WorkerSearch(w)
        \/ WorkerHash(w)
        \/ WorkerLockAndAdd(w)
        \/ WorkerSaveLedger(w)
        \/ WorkerFinish(w)
        \/ WorkerExit(w)

NextK ==
    \/ MinerStart
    \/ MinerStopSet
    \/ MinerStopJoin
    \/ StepWorkerLocking

SpecK == InitM /\ [][NextK]_vars

\* the WalletManager and its callers
StepAddWallet ==
    \E address \in ManagerAddrs, initial_balance \in 0 .. MaxBalance :
        AddWallet(address, initial_balance)

StepUpdateBalances == \E tx \in ManagerTransactions : UpdateBalances(tx)

NextB ==
    \/ StepAddWallet
    \/ StepUpdateBalances

SpecB == InitM /\ [][NextB]_vars

\* the map ledger with the network handler receiving triad messages, next to
\* callers of add_triad
StepHandleTriad == \E triad_data \in InboundTriads(triad_map) : HandleTriad(triad_data)

NextH ==
    \/ StepAddTriadL
    \/ StepHandleTriad

SpecH == InitM /\ [][NextH]_vars


(***************************************************************************)
(* Properties of the validating ledger (SpecV).                            *)
(***************************************************************************)
StoredHashes == DOMAIN triads

\* add_triad(c, g) returns False and leaves ledger and wallets as they were
Rejects(c, g) ==
    /\ add_triad_result(Cur, c, g) = "False"
    /\ add_triad(Cur, c, g) = Cur

\* the stored Triads a candidate names as parents
StoredParents(c) == SeqToSet(c.parent_hashes) \cap StoredHashes

\* a Triad with depth 0 and no parents
IsGenesis(t) == t.depth = 0 /\ t.parent_hashes = <<>>

\* number of positions of sequence s that hold x
Occurrences(s, x) == Cardinality({ i \in 1 .. Len(s) : s[i] = x })

\* position of hash h in the order of acceptance
AcceptedAt(h) == CHOOSE i \in 1 .. Len(accepted) : accepted[i] = h

\* C1: every stored Triad is stored under its own hash, which starts with
\* DIFFICULTY '0' digits; add_triad returns False and stores nothing for a
\* candidate whose hash does not start with DIFFICULTY '0' digits.
C1_StoredHashesMeetDifficulty ==
    /\ \A h \in StoredHashes :
          triads[h].hash = h /\ StartsWithZeros(h, DIFFICULTY)
    /\ \A call \in Calls(triads) :
          LET c == call.triad  g == call.is_genesis IN
          ~StartsWithZeros(c.hash, DIFFICULTY) => Rejects(c, g)

\* C1 witness: a Triad is stored, and add_triad turns down a candidate at
\* the difficulty check.
C1_Witness ==
    /\ StoredHashes # {}
    /\ \E call \in Calls(triads) :
          LET c == call.triad  g == call.is_genesis IN
          Validate(triads, c, g) = "difficulty" /\ Rejects(c, g)

\* C2: every stored Triad that has parents has depth max(depth of its
\* parents) + 1, all of them stored; add_triad returns False for a candidate
\* that names stored parents and whose depth is not max(their depths) + 1.
C2_DepthIsMaxParentDepthPlusOne ==
    /\ \A h \in StoredHashes :
          triads[h].parent_hashes # <<>> =>
             /\ SeqToSet(triads[h].parent_hashes) \subseteq StoredHashes
             /\ triads[h].depth =
                   MaxOfSet({ triads[p].depth : p \in SeqToSet(triads[h].parent_hashes) }) + 1
    /\ \A call \in Calls(triads) :
          LET c == call.triad  g == call.is_genesis IN
          (/\ StoredParents(c) # {}
           /\ c.depth # MaxOfSet({ triads[p].depth : p \in StoredParents(c) }) + 1)
          => Rejects(c, g)

\* C2 witness: a stored Triad has two different parents, and add_triad turns
\* down a candidate that names stored parents of different depths.
C2_Witness ==
    /\ \E h \in StoredHashes : Cardinality(SeqToSet(triads[h].parent_hashes)) = 2
    /\ \E call \in Calls(triads) :
          LET c == call.triad  g == call.is_genesis IN
          /\ Cardinality({ triads[p].depth : p \in StoredParents(c) }) = 2
          /\ SeqToSet(c.parent_hashes) \subseteq StoredHashes
          /\ Validate(triads, c, g) = "depth_mismatch" /\ Rejects(c, g)

C5_NoDuplicateAcceptance ==
    /\ \A call \in Calls(triads) :
          LET c == call.triad  g == call.is_genesis IN
          c.hash \in StoredHashes => Rejects(c, g)
    /\ \A i, j \in 1 .. Len(accepted) : accepted[i] = accepted[j] => i = j
    /\ SeqToSet(accepted) = StoredHashes

\* C5 witness: two Triads were accepted, and add_triad turns down a stored
\* Triad that is handed in again.
C5_Witness ==
    /\ Len(accepted) >= 2
    /\ \E call \in Calls(triads) :
          LET c == call.triad  g == call.is_genesis IN
          /\ c.hash \in StoredHashes /\ c.parent_hashes # <<>>
          /\ Validate(triads, c, g) = "duplicate" /\ Rejects(c, g)

\* C6: once a Triad has been accepted, the ledger holds exactly one Triad
\* with depth 0 and no parents.
C6_ExactlyOneGenesis ==
    StoredHashes # {} =>
       Cardinality({ h \in StoredHashes : IsGenesis(triads[h]) }) = 1

\* C7: add_triad with is_genesis=False returns False and changes nothing for
\* a candidate that has no parents or names a parent that is not stored;
\* every stored Triad other than a genesis has at least one parent, and the
\* parents of every stored Triad are stored.
C7_ParentsAreStored ==
    /\ \A call \in Calls(triads) :
          LET c == call.triad  g == call.is_genesis IN
          (/\ g = FALSE
           /\ \/ c.parent_hashes = <<>>
              \/ ~(SeqToSet(c.parent_hashes) \subseteq StoredHashes))
          => Rejects(c, g)
    /\ \A h \in StoredHashes :
          /\ ~IsGenesis(triads[h]) => triads[h].parent_hashes # <<>>
          /\ SeqToSet(triads[h].parent_hashes) \subseteq StoredHashes

\* C7 witness: a Triad with a parent is stored, add_triad turns down a
\* candidate naming a stored parent and one that is not stored, and it turns
\* down a candidate without parents.
C7_Witness ==
    /\ \E h \in StoredHashes : triads[h].parent_hashes # <<>>
    /\ \E call \in Calls(triads) :
          LET c == call.triad  g == call.is_genesis IN
          /\ StoredParents(c) # {}
          /\ Validate(triads, c, g) = "parent_missing" /\ Rejects(c, g)
    /\ \E call \in Calls(triads) :
          LET c == call.triad  g == call.is_genesis IN
          Validate(triads, c, g) = "no_parents" /\ Rejects(c, g)

\* C8: no stored Triad is deeper than MAX_DEPTH, and add_triad returns False
\* and changes nothing for a candidate with depth > MAX_DEPTH.
C8_DepthWithinMaxDepth ==
    /\ \A h \in StoredHashes : triads[h].depth <= MAX_DEPTH
    /\ \A call \in Calls(triads) :
          LET c == call.triad  g == call.is_genesis IN
          c.depth > MAX_DEPTH => Rejects(c, g)

\* C8 witness: a Triad of depth MAX_DEPTH is stored, and add_triad turns
\* down a candidate of depth MAX_DEPTH + 1 that names it as its parent.
C8_Witness ==
    \E p \in StoredHashes :
       /\ triads[p].depth = MAX_DEPTH
       /\ \E call \in Calls(triads) :
          LET c == call.triad  g == call.is_genesis IN
             /\ c.parent_hashes = <<p>> /\ c.depth = MAX_DEPTH + 1
             /\ Validate(triads, c, g) = "depth_exceeded" /\ Rejects(c, g)

(***************************************************************************)
(* Properties of the map ledger and the threaded Miner (SpecM).            *)
(***************************************************************************)
\* the Triads that next reach TriangularLedger.add_triad: those of direct
\* callers, and those of the workers that stand before their call
SubmittedNext ==
    CallsM(triad_map) \cup { local[w].triad : w \in { v \in Workers : pc[v] = "submit" } }

\* the stored Triads that Triad t names as parents
StoredParentsM(t) == SeqToSet(t.parent_hashes) \cap DOMAIN triad_map

\* C9: every Triad in _triad_map other than the genesis Triad has at least
\* one parent hash and all its parent hashes are keys of _triad_map; a Triad
\* for which add_triad returns False is not in _triad_map afterwards and
\* get_total_triads does not count it.
C9_MapTriadsHaveStoredParents ==
    /\ \A h \in DOMAIN triad_map :
          genesis_triad # <<h>> =>
             /\ triad_map[h].parent_hashes # <<>>
             /\ SeqToSet(triad_map[h].parent_hashes) \subseteq DOMAIN triad_map
    /\ \A t \in SubmittedNext :
          ~map_add_triad_result(CurM, t) =>
             /\ t.hash_value \notin DOMAIN map_add_triad(CurM, t).triad_map
             /\ get_total_triads(map_add_triad(CurM, t)) <= get_total_triads(CurM)

\* C10: no Triad of the map ledger ever has more than MAX_CHILD_CAPACITY
\* children, and the Triad a worker submits while a parent it names has
\* MAX_CHILD_CAPACITY children already is rejected: add_triad returns False
\* for it and leaves the ledger as it was.  So of the workers that submit
\* against a parent with one free slot one is accepted, the others are not.
C10_OneSubmissionPerFreeSlot ==
    /\ \A h \in DOMAIN triad_map :
          Len(triad_map[h].child_hashes) <= MAX_CHILD_CAPACITY
    /\ \A w \in Workers :
          (/\ pc[w] = "submit"
           /\ \E p \in StoredParentsM(local[w].triad) :
                 Len(triad_map[p].child_hashes) >= MAX_CHILD_CAPACITY)
          => /\ ~map_add_triad_result(CurM, local[w].triad)
             /\ map_add_triad(CurM, local[w].triad) = CurM

(***************************************************************************)
(* Properties of the threaded Miner (SpecW, SpecM).                        *)
(***************************************************************************)
\* C11: a worker's step that credits the reward, broadcasts the Triad and
\* counts a successful mine is taken only for a candidate for which
\* ledger.add_triad returned True.
C11_RewardOnlyAfterAcceptance ==
    [][\A w \in Workers : WorkerFinish(w) => local[w].returned = "True"]_vars

\* C12: with the workers started on an empty ledger that only they extend,
\* the ledger never holds more than one Triad with depth 0 and no parents.
C12_OneGenesisAmongWorkers ==
    Cardinality({ h \in DOMAIN triad_map :
                    triad_map[h].depth = 0 /\ triad_map[h].parent_hashes = <<>> }) <= 1

\* C13: a Triad with parents that a worker is about to hand to
\* ledger.add_triad has depth max(depth of the Triads it names) + 1.
C13_WorkerDepthIsMaxParentDepthPlusOne ==
    \A w \in Workers :
        (pc[w] = "submit" /\ local[w].triad.parent_hashes # <<>>) =>
            /\ SeqToSet(local[w].triad.parent_hashes) \subseteq DOMAIN triad_map
            /\ local[w].triad.depth =
                  MaxOfSet({ triad_map[p].depth :
                               p \in SeqToSet(local[w].triad.parent_hashes) }) + 1

\* C17: once ledger.add_triad has returned True for a worker's candidate and
\* the worker has left the block that holds ledger.transaction_pool_lock, no
\* transaction of that candidate is in ledger.transaction_pool.
C17_AcceptedTransactionsLeaveThePool ==
    \A w \in Workers :
        (pc[w] = "finish" /\ local[w].returned = "True") =>
            SeqToSet(local[w].transactions) \cap SeqToSet(transaction_pool) = {}

\* C18 as stated: a worker that is in its nonce search while the shutdown
\* event is set does not go on to call ledger.add_triad.
C18_ShutdownInSearchNeverSubmits ==
    [][\A w \in Workers :
          (pc[w] \in {"search", "hash"} /\ shutdown_event) => pc'[w] # "submit"]_vars

\* C18, amended: a worker that finds the shutdown event set at the test of
\* its nonce-search loop drops the candidate: it goes back to the outer loop
\* and the ledger is as before; and no step of a worker from the snapshot of
\* the pool to the end of the nonce search changes ledger.transaction_pool.
C18_ShutdownSeenAtLoopTestAbandons ==
    [][\A w \in Workers :
          /\ (pc[w] = "search" /\ shutdown_event /\ pc'[w] # pc[w]) =>
                (pc'[w] = "loop" /\ triad_map' = triad_map /\ genesis_triad' = genesis_triad)
          /\ (pc[w] \in {"loop", "assemble", "search", "hash"} /\ pc'[w] # pc[w]) =>
                transaction_pool' = transaction_pool]_vars

\* C18 witness: the shutdown event is set while a worker whose candidate
\* holds a transaction of the pool is at the test of its nonce-search loop,
\* after a turn of the loop.
C18_Witness ==
    \E w \in Workers :
        /\ pc[w] = "search" /\ shutdown_event
        /\ local[w].transactions # <<>>
        /\ local[w].nonce > nonce_start(w)

\* C20: once ledger.add_triad has returned True for a worker's candidate,
\* get_all_transactions() ends without raising and yields every transaction
\* of that candidate.
C20_AcceptedTransactionsAreYielded ==
    \A w \in Workers :
        (pc[w] = "finish" /\ local[w].returned = "True") =>
            /\ ~get_all_transactions(CurM).raised
            /\ SeqToSet(local[w].transactions)
                  \subseteq SeqToSet(get_all_transactions(CurM).yielded)

(***************************************************************************)
(* Properties of the transaction pool of the threaded Miner (SpecP).       *)
(***************************************************************************)
\* number of entries of pool with this tx_hash
HashCount(pool, tx_hash) ==
    Cardinality({ i \in 1 .. Len(pool) : pool[i].tx_hash = tx_hash })

\* a transaction lacks a required field, or its amount is not positive
LacksFieldOrAmount(transaction) ==
    \/ \E f \in required_attrs : f \notin transaction.attrs /\ f \notin transaction.data
    \/ transaction.amount <= 0

\* C14: for two transactions with the same tx_hash that have the required
\* fields and a positive amount, and a pool with at most one entry of that
\* tx_hash, add_transaction_to_pool called with the first and then with the
\* second leaves exactly one entry with that tx_hash, and the second call
\* leaves the pool as the first call left it.
C14_SecondSubmitChangesNothing ==
    \A t1 \in LocalTransactions :
        (~LacksFieldOrAmount(t1) /\ HashCount(transaction_pool, t1.tx_hash) <= 1) =>
            \A t2 \in LocalTransactions :
                (t1.tx_hash = t2.tx_hash /\ ~LacksFieldOrAmount(t2)) =>
                    LET pool1 == add_transaction_to_pool(transaction_pool, t1)
                        pool2 == add_transaction_to_pool(pool1, t2)
                    IN  /\ pool2 = pool1
                        /\ HashCount(pool2, t1.tx_hash) = 1

\* C14 witness: add_transaction_to_pool has put a transaction in the pool
\* (nothing came in from a peer), and a call with a different transaction
\* of the same tx_hash leaves the pool as it is.
C14_Witness ==
    /\ tx_broadcasts = <<>> /\ submitting = <<>>
    /\ \E i \in 1 .. Len(transaction_pool), t2 \in LocalTransactions :
          /\ t2.tx_hash = transaction_pool[i].tx_hash
          /\ t2 # transaction_pool[i]
          /\ ~LacksFieldOrAmount(t2)
          /\ add_transaction_to_pool(transaction_pool, t2) = transaction_pool

\* no two entries of the pool have the same tx_hash
NoDuplicateTxHashes(pool) ==
    \A i \in 1 .. Len(pool), j \in 1 .. Len(pool) :
        i # j => pool[i].tx_hash # pool[j].tx_hash

\* C15: the pool never holds two entries with the same tx_hash, and while a
\* call of add_transaction_to_pool is between its duplicate test and its
\* append, holding its lock, no other thread appends to the pool and no
\* worker reads it.
C15_NoDuplicatesUnderOneLock ==
    [][/\ NoDuplicateTxHashes(transaction_pool')
       /\ submitting # <<>> =>
             /\ transaction_pool' # transaction_pool => submitting' = <<>>
             /\ \A w \in Workers : pc[w] = "loop" => pc'[w] # "assemble"]_vars

\* C16: add_transaction_to_pool leaves the pool as it is for a transaction
\* that lacks a required field or whose amount is not positive; no such
\* transaction is in the pool, about to be appended to it by a call of
\* add_transaction_to_pool, or among the transactions of a worker's candidate.
C16_InvalidTransactionsStayOut ==
    /\ \A t \in LocalTransactions :
          LacksFieldOrAmount(t) =>
             add_transaction_to_pool(transaction_pool, t) = transaction_pool
    /\ \A i \in 1 .. Len(transaction_pool) : ~LacksFieldOrAmount(transaction_pool[i])
    /\ \A i \in 1 .. Len(submitting) : ~LacksFieldOrAmount(submitting[i])
    /\ \A w \in Workers : \A i \in 1 .. Len(local[w].transactions) :
          ~LacksFieldOrAmount(local[w].transactions[i])

\* C16 witness: a worker's candidate with a transaction from the pool is in
\* the nonce search, and add_transaction_to_pool turns down a transaction
\* with amount 0 and one without its amount.
C16_Witness ==
    /\ \E w \in Workers :
          pc[w] \in {"search", "hash", "submit"} /\ local[w].transactions # <<>>
    /\ \E t \in LocalTransactions :
          /\ t.amount = 0 /\ "amount" \in t.data
          /\ add_transaction_to_pool(transaction_pool, t) = transaction_pool
    /\ \E t \in LocalTransactions :
          /\ "amount" \notin t.data /\ "amount" \notin t.attrs
          /\ add_transaction_to_pool(transaction_pool, t) = transaction_pool

(***************************************************************************)
(* Properties of the single-threaded Miner (SpecS).                        *)
(***************************************************************************)
\* C19: a call of mine_next_triad that returns None leaves the Miner's
\* transaction_pool as it was before the call.
C19_FailedMiningKeepsThePool ==
    \A call \in MineCalls(CurS) :
        LET r == mine_next_triad(CurS, call[1], call[2], call[3]) IN
        r.returned = "None" => r.miner.transaction_pool = miner_pool

(***************************************************************************)
(* Properties of the map ledger under direct calls of add_triad (SpecL).   *)
(***************************************************************************)
\* the stored Triads without children
ChildlessStored(L) ==
    { h \in DOMAIN L.triad_map : L.triad_map[h].child_hashes = <<>> }

\* the stored Triads that name the genesis Triad as a parent
ChildrenOfGenesis(L) ==
    { h \in DOMAIN L.triad_map :
        /\ L.genesis_triad # <<h>>
        /\ SeqToSet(L.genesis_triad) \cap SeqToSet(L.triad_map[h].parent_hashes) # {} }

\* C21: get_current_tip_triad_hashes returns the empty list when there is no
\* genesis Triad; otherwise it returns the hashes of the stored Triads whose
\* child_hashes is empty, all of them and each once; and once Triads naming
\* the genesis Triad as parent are stored, it returns each of them that has
\* no children and does not return the genesis Triad.
C21_TipsAreTheChildlessTriads ==
    LET tips == get_current_tip_triad_hashes(CurM) IN
    /\ genesis_triad = <<>> => tips = <<>>
    /\ genesis_triad # <<>> =>
          /\ SeqToSet(tips) = ChildlessStored(CurM)
          /\ \A h \in SeqToSet(tips) : Occurrences(tips, h) = 1
          /\ ChildrenOfGenesis(CurM) # {} =>
                /\ ChildrenOfGenesis(CurM) \cap ChildlessStored(CurM) \subseteq SeqToSet(tips)
                /\ genesis_triad[1] \notin SeqToSet(tips)

C23_SaveLoadRoundTrip ==
    genesis_triad # <<>> =>
        LET loaded == load_from_json(save_to_json(CurM)) IN
        /\ ~loaded.raised
        /\ DOMAIN loaded.ledger.triad_map = DOMAIN triad_map
        /\ get_current_tip_triad_hashes(loaded.ledger) = get_current_tip_triad_hashes(CurM)
        /\ get_total_triads(loaded.ledger) = get_total_triads(CurM)

(***************************************************************************)
(* Further properties of the validating ledger (SpecV).                    *)
(***************************************************************************)
\* C24: get_candidate_parents returns the stored Triads that have fewer than
\* MAX_CHILD_CAPACITY children and whose depth is at least the greatest
\* depth of a stored Triad minus one: all of them, no others, each once; and
\* the empty list when no Triad is stored.
C24_CandidateParentsAreOpenAndRecent ==
    LET result == get_candidate_parents(Cur, accepted) IN
    /\ StoredHashes = {} => result = <<>>
    /\ StoredHashes # {} =>
          LET deepest == MaxOfSet({ triads[h].depth : h \in StoredHashes }) IN
          /\ { result[i].hash : i \in 1 .. Len(result) }
                = { h \in StoredHashes :
                      /\ Len(triads[h].child_hashes) < MAX_CHILD_CAPACITY
                      /\ triads[h].depth >= deepest - 1 }
          /\ \A i \in 1 .. Len(result) :
                /\ result[i] = triads[result[i].hash]
                /\ \A j \in 1 .. Len(result) : i # j => result[i].hash # result[j].hash

\* C24 witness: get_candidate_parents returns some Triad, leaves out a Triad
\* with free capacity that is two levels above the deepest, and leaves out
\* a full Triad that is one level above the deepest.
C24_Witness ==
    LET result == get_candidate_parents(Cur, accepted)
        returned == { result[i].hash : i \in 1 .. Len(result) }
        deepest == MaxOfSet({ triads[h].depth : h \in StoredHashes })
    IN  /\ returned # {}
        /\ \E h \in StoredHashes \ returned :
              ~is_full(triads[h]) /\ triads[h].depth = deepest - 2
        /\ \E h \in StoredHashes \ returned :
              is_full(triads[h]) /\ triads[h].depth = deepest - 1

(***************************************************************************)
(* Further properties of the single-threaded Miner (SpecS).                *)
(***************************************************************************)
\* the fee of a transaction of the pool
FeeOf(tx) == (CHOOSE tx_node \in TransactionNodes : tx_node.tx = tx).fee

\* the sum of the fees of the transactions of a Triad that came from the pool
RECURSIVE PoolFeesOf(_)
PoolFeesOf(txs) ==
    IF txs = <<>> THEN 0
    ELSE (IF Head(txs) = "coinbase" THEN 0 ELSE FeeOf(Head(txs))) + PoolFeesOf(Tail(txs))

\* the Triad a call of mine_next_triad with outcome found of the proof of
\* work left in the ledger
MinedTriad(r, found) == r.miner.triad_map[found[1]]

\* C25 as stated: a call of mine_next_triad that returns the mined Triad has
\* increased the balance of the wallet of miner_address by MINING_REWARD
\* plus the fees of the pool transactions in that Triad.
C25_RewardCreditedOnEveryMinedTriad ==
    \A call \in MineCalls(CurS) :
        LET r == mine_next_triad(CurS, call[1], call[2], call[3]) IN
        r.returned = "Triad" =>
            /\ call[1] \in DOMAIN r.miner.wallets
            /\ r.miner.wallets[call[1]] =
                  miner_wallets[call[1]] + MINING_REWARD
                     + PoolFeesOf(MinedTriad(r, call[3]).transactions)

\* C25, amended: a call of mine_next_triad that returns the mined Triad has
\* increased the balance of the wallet named miner_address, when there is
\* one, by MINING_REWARD plus the fees of the pool transactions in that
\* Triad, and has changed no other balance; when no wallet has that name, it
\* has changed no balance.
C25_RewardCreditedToAKnownWallet ==
    \A call \in MineCalls(CurS) :
        LET r == mine_next_triad(CurS, call[1], call[2], call[3]) IN
        r.returned = "Triad" =>
            /\ DOMAIN r.miner.wallets = DOMAIN miner_wallets
            /\ \A a \in DOMAIN miner_wallets :
                  r.miner.wallets[a] =
                     IF a = call[1]
                     THEN miner_wallets[a] + MINING_REWARD
                             + PoolFeesOf(MinedTriad(r, call[3]).transactions)
                     ELSE miner_wallets[a]

\* C25 witness: the Miner has mined a Triad that holds a transaction of the
\* pool for a miner_address with a wallet, and the wallet holds the reward
\* and the fee.
C25_Witness ==
    \E h \in DOMAIN ledger_map, a \in DOMAIN miner_wallets :
        /\ ledger_map[h].miner_address = a
        /\ Len(ledger_map[h].transactions) > 1
        /\ mining_stats.triads_mined_session = 1
        /\ miner_wallets[a] = MINING_REWARD + PoolFeesOf(ledger_map[h].transactions)

\* C26: the Triad a call of mine_next_triad returns holds at most
\* MAX_TRANSACTIONS_PER_TRIAD records in its transactions list, whatever the
\* length of the pool.
C26_TransactionsPerTriadCapped ==
    \A call \in MineCalls(CurS) :
        LET r == mine_next_triad(CurS, call[1], call[2], call[3]) IN
        r.returned = "Triad" =>
            Len(MinedTriad(r, call[3]).transactions) <= MAX_TRANSACTIONS_PER_TRIAD

(***************************************************************************)
(* Lifecycle of the threaded Miner (SpecW, SpecWFair).                     *)
(***************************************************************************)
\* thread w has been started and has not ended
Alive(w) == pc[w] \notin {"unborn", "done"}

StartReturned ==
    /\ threads # <<>>
    /\ ~shutdown_event
    /\ stop_pc \in {"idle", "returned"}

\* stop() was called after start() and has returned: the threads were
\* started, the event is set and the loop of stop() is over
StopReturned ==
    /\ \A w \in Workers : pc[w] # "unborn"
    /\ shutdown_event
    /\ stop_pc = "returned"

\* C28: after start() has returned there are num_threads threads and every
\* entry of thread_states is "running"; after a following stop() has
\* returned, threads is empty and thread_states has no entry.
C28_LifecycleStates ==
    /\ StartReturned =>
           /\ Len(threads) = NumWorkers
           /\ \A w \in Workers : thread_states[w] = "running"
    /\ StopReturned =>
           /\ threads = <<>>
           /\ \A w \in Workers : thread_states[w] = ""

(***************************************************************************)
(* Properties of the configuration checks (SpecC).                         *)
(***************************************************************************)
\* x is an integer (a Python int, which a bool is) not below least
IntegerAtLeast(x, least) == x.kind \in {"int", "bool"} /\ x.v >= least

\* x is a number that is <= 0
NotPositive(x) == x.kind \in {"int", "bool", "float"} /\ x.v <= 0

\* the configuration is invalid for a Miner with that num_threads
InvalidForMiner(num_threads, cfg) ==
    \/ ~IntegerAtLeast(num_threads, 1)
    \/ ~IntegerAtLeast(cfg["DIFFICULTY"], 1)
    \/ ~IntegerAtLeast(cfg["MAX_NONCE_ATTEMPTS"], 1)

\* the configuration is invalid for a simulation
InvalidForSimulation(cfg) ==
    \/ \E a \in SimulationAttrs \ {"TRANSACTIONS_PER_ITERATION"} : NotPositive(cfg[a])
    \/ /\ cfg["TRANSACTIONS_PER_ITERATION"].kind \in {"int", "bool", "float"}
       /\ cfg["TRANSACTIONS_PER_ITERATION"].v < 0

\* Miner.start() has created a thread
ThreadStarted == \E w \in Workers : pc[w] # "unborn"

\* C29: under a configuration that is invalid for it, Miner(...) raises
\* ValueError, whatever num_threads is; under a configuration that is invalid
\* for a simulation validate_config raises ValueError and run_simulation has
\* returned before it builds the Miner; and no thread is ever started by a
\* Miner whose configuration is invalid.
C29_InvalidConfigurationStartsNoWorker ==
    /\ \A num_threads \in NumThreadsValues :
           InvalidForMiner(num_threads, config) =>
               MinerInit(num_threads, config).state = "ValueError"
    /\ InvalidForSimulation(config) =>
           /\ validate_config(config) = "ValueError"
           /\ sim_pc \in {"idle", "returned"}
    /\ miner_instance.state = "constructed" =>
           ~InvalidForMiner(miner_instance.num_threads, config)
    /\ ThreadStarted =>
           /\ miner_instance.state = "constructed"
           /\ sim_pc = "mining" => ~InvalidForSimulation(config)

\* C29 witness: run_simulation went past validate_config under a
\* configuration that is invalid for the Miner, Miner(...) raised and no
\* thread was started.
C29_Witness ==
    /\ sim_pc = "raised"
    /\ InvalidForMiner(IntValue(1), config)
    /\ miner_instance.state = "ValueError"
    /\ ~ThreadStarted

(***************************************************************************)
(* What add_triad of the validating ledger leaves alone (SpecV).           *)
(***************************************************************************)
\* C30: whatever Triad add_triad is called with, every stored Triad is
\* stored afterwards with all its fields as they were, except that the
\* child_hashes of a Triad the candidate names as parent may have the
\* candidate's hash appended; so the set of stored hashes only grows.
C30_AddTriadKeepsStoredTriads ==
    \A call \in Calls(triads) :
        LET c == call.triad
            after == add_triad(Cur, c, call.is_genesis).triads
        IN  /\ StoredHashes \subseteq DOMAIN after
            /\ \A h \in StoredHashes :
                  /\ [after[h] EXCEPT !.child_hashes = triads[h].child_hashes] = triads[h]
                  /\ \/ after[h].child_hashes = triads[h].child_hashes
                     \/ /\ h \in SeqToSet(c.parent_hashes)
                        /\ after[h].child_hashes = Append(triads[h].child_hashes, c.hash)

\* C30 witness: add_triad accepts a candidate whose parent has a child
\* already, next to a stored Triad that is not its parent.
C30_Witness ==
    \E call \in Calls(triads) :
        LET c == call.triad IN
        /\ add_triad_result(Cur, c, call.is_genesis) = "True"
        /\ \E p \in SeqToSet(c.parent_hashes) : triads[p].child_hashes # <<>>
        /\ StoredHashes \ SeqToSet(c.parent_hashes) # {}

(***************************************************************************)
(* Properties of the network handler's triad messages (SpecH).             *)
(***************************************************************************)
\* C31: handle_triad changes the ledger or hands a Triad to node.broadcast
\* only for a message whose hash_value starts with DIFFICULTY zeros and whose
\* parent_hashes are all keys of ledger._triad_map; such a Triad is stored
\* and broadcast, and a Triad failing either test leaves the ledger and the
\* broadcasts as they were.
C31_OnlyValidTriadsAddedAndRebroadcast ==
    \A triad_data \in InboundTriads(triad_map) :
        LET after == handle_triad(CurM, broadcasts, triad_data)
            passes == /\ StartsWithZeros(triad_data.hash_value, DIFFICULTY)
                      /\ SeqToSet(triad_data.parent_hashes) \subseteq DOMAIN triad_map
        IN  /\ ~passes => after.ledger = CurM /\ after.broadcasts = broadcasts
            /\ (passes /\ triad_data.keys = TriadDataKeys) =>
                   /\ triad_data.hash_value \in DOMAIN after.ledger.triad_map
                   /\ after.broadcasts = Append(broadcasts, triad_data.hash_value)

\* C31 witness: the handler has stored and broadcast Triads, and now turns
\* down a Triad with a valid hash that names a stored parent and one that
\* is not stored, and a Triad whose hash does not meet the target.
C31_Witness ==
    /\ Len(broadcasts) >= 2
    /\ \E triad_data \in InboundTriads(triad_map) :
          /\ triad_data.keys = TriadDataKeys
          /\ StartsWithZeros(triad_data.hash_value, DIFFICULTY)
          /\ \E p \in SeqToSet(triad_data.parent_hashes) : p \in DOMAIN triad_map
          /\ \E p \in SeqToSet(triad_data.parent_hashes) : p \notin DOMAIN triad_map
          /\ handle_triad(CurM, broadcasts, triad_data).broadcasts = broadcasts
    /\ \E triad_data \in InboundTriads(triad_map) :
          /\ triad_data.keys = TriadDataKeys
          /\ ~StartsWithZeros(triad_data.hash_value, DIFFICULTY)
          /\ handle_triad(CurM, broadcasts, triad_data).ledger = CurM

(***************************************************************************)
(* Properties of the WalletManager (SpecB).                                *)
(***************************************************************************)
\* the balance of address a in wallets W, a wallet that does not exist yet
\* being one with the balance 0.0 that get_wallet gives it
BalanceIn(W, a) == IF a \in DOMAIN W THEN W[a] ELSE 0

\* the balances after tx was applied to W: amount + fee taken from the
\* sender, amount given to the receiver
Transferred(W, tx) ==
    [a \in ManagerAddrs |->
        BalanceIn(W, a) - (IF a = tx.from_addr THEN tx.amount + tx.fee ELSE 0)
                        + (IF a = tx.to_addr THEN tx.amount ELSE 0)]

\* C32: update_balances returns True, with amount + fee taken from the
\* sender and amount given to the receiver, when the sender's balance is at
\* least amount + fee; otherwise it returns False and every balance is as it
\* was; and no balance is negative.
C32_UpdateBalancesAllOrNothing ==
    /\ \A tx \in ManagerTransactions :
          LET after == update_balances(manager_wallets, tx) IN
          IF BalanceIn(manager_wallets, tx.from_addr) >= tx.amount + tx.fee
          THEN /\ after.result = "True"
               /\ \A a \in ManagerAddrs :
                     BalanceIn(after.wallets, a) = Transferred(manager_wallets, tx)[a]
          ELSE /\ after.result = "False"
               /\ \A a \in ManagerAddrs :
                     BalanceIn(after.wallets, a) = BalanceIn(manager_wallets, a)
    /\ \A a \in DOMAIN manager_wallets : manager_wallets[a] >= 0

(***************************************************************************)
(* Properties of the nonce ranges of the workers (SpecW).                  *)
(***************************************************************************)
\* the nonces of worker i (counted from 0): [i*R, i*R + R - 1] with
\* R = MAX_NONCE_ATTEMPTS // num_threads
NoncesOf(i) ==
    (i * (MAX_NONCE_ATTEMPTS \div NumWorkers)) ..
        (i * (MAX_NONCE_ATTEMPTS \div NumWorkers) + (MAX_NONCE_ATTEMPTS \div NumWorkers) - 1)

\* C33: a worker that computes a hash does so for a nonce of its own range
\* [i*R, i*R + R - 1], and the ranges of two workers have no nonce in common.
C33_WorkersTryDisjointNonces ==
    /\ \A w \in Workers : pc[w] = "hash" => local[w].nonce \in NoncesOf(w - 1)
    /\ \A w1, w2 \in Workers : w1 # w2 => NoncesOf(w1 - 1) \cap NoncesOf(w2 - 1) = {}

\* both workers compute a hash at once, each for the last nonce of its range
C33_Witness ==
    \A w \in Workers :
        /\ pc[w] = "hash"
        /\ local[w].nonce = w * (MAX_NONCE_ATTEMPTS \div NumWorkers) - 1

(***************************************************************************)
(* Properties of the metrics of the threaded Miner (SpecG).                *)
(***************************************************************************)
\* no worker is inside a mining cycle
Quiescent == \A w \in Workers : pc[w] \in {"unborn", "begin", "loop", "exit", "done"}

\* the Triads add_triad returned True for: the genesis Triad and the Triads
\* that were linked to a stored parent
AcceptedM ==
    { h \in DOMAIN triad_map :
        \/ h \in SeqToSet(genesis_triad)
        \/ \E p \in DOMAIN triad_map : h \in SeqToSet(triad_map[p].child_hashes) }

\* C34: whenever no worker is inside a mining cycle, hashes_computed is the
\* number of hashes the workers have computed and successful_mines is the
\* number of Triads the ledger accepted from the workers.
C34_MetricsCountHashesAndAcceptedTriads ==
    Quiescent =>
        /\ hashes_computed = hash_calls
        /\ successful_mines = Cardinality(AcceptedM)

(***************************************************************************)
(* Properties of the ledger save of the workers (SpecK).                   *)
(***************************************************************************)
\* C35: a worker that calls the save of the ledger does not hold
\* ledger.transaction_pool_lock: the lock was released before the save.
C35_SaveOutsideThePoolLock ==
    [][\A w \in Workers : WorkerSaveLedger(w) => ~HoldsPoolLock(w)]_vars

(***************************************************************************)
(* Properties of the hashes of the validating ledger (SpecV).              *)
(***************************************************************************)
\* C36: every Triad add_triad accepts is stored with a hash that is
\* calculate_hash() of its own fields, and a stored Triad keeps its hash
\* when child hashes are appended to it.
C36_AcceptedHashIsContentHash ==
    /\ \A call \in CallsWithHash(triads) :
          add_triad_result(Cur, call.triad, call.is_genesis) = "True" =>
              LET stored == add_triad(Cur, call.triad, call.is_genesis).triads[call.triad.hash]
              IN  stored.hash = calculate_hash(stored)
    /\ \A h \in DOMAIN triads : triads[h].hash = h

(***************************************************************************)
(* Properties of the bookkeeping of the validating ledger (SpecV).         *)
(***************************************************************************)
\* the largest depth of the Triads of a store, -1 for none
MaxStoredDepth(store) ==
    IF DOMAIN store = {} THEN -1
    ELSE MaxOfSet({ store[h].depth : h \in DOMAIN store })

\* get_max_current_depth() and get_total_triads() are right on ledger L
\* that holds n Triads
BookkeepingRight(L, n) ==
    /\ get_max_current_depth(L) = MaxStoredDepth(L.triads)
    /\ ledger_get_total_triads(L) = n

HasSubmitted(w) == pc[w] = "finish"

\* the transactions of the pool worker w built its Triad over
IncludedBy(w) == SeqToSet(local[w].transactions)

\* C40: two Triads that workers have handed to the ledger are built over
\* different transactions of the pool: none is included in both.
C40_NoTransactionInTwoTriads ==
    \A w1, w2 \in Workers :
        (w1 # w2 /\ HasSubmitted(w1) /\ HasSubmitted(w2)) =>
            IncludedBy(w1) \cap IncludedBy(w2) = {}

====
